---------------------------- MODULE Spec2Model ----------------------------
(***************************************************************************)
(* A model of the cryptopuff node's chain store (db.go), its validation    *)
(* rules (block.go, tx.go), the transactional substrate they run on        *)
(* (database/tx.go), and the node's tasks (server.go): the miner, the peer *)
(* set and the gossip handlers.                                            *)
(*                                                                         *)
(* The five chain tables are the fields of the variable db; every store    *)
(* operation is a closure from a table state to a table state and an       *)
(* error, run by Transact, which keeps the closure's writes only when the  *)
(* closure returns nil.  SQLite is a single-writer store, so one store     *)
(* operation is one atomic step.                                           *)
(***************************************************************************)
EXTENDS Integers, Sequences, FiniteSets, TLC

VARIABLES
    db,     \* the tables: blocks, balances, included_txs, block_txs, txs
    rt,     \* one call of TransactWithRetry: where it is and what it did
    hv,     \* one call of Hash.Valid: the hash and the answer
    mn,     \* the miner: bestBlockVersion, hashesPerSec and the searchers
    ks,     \* the key store: the tables keys and miner_address
    pr,     \* the peer set: the table peers and the tasks that change it
    gs      \* the gossip handlers: one push or pull, where it is and what it did

vars == <<db, rt, hv, mn, ks, pr, gs>>

---------------------------------------------------------------------------
(* Bounds of the model.                                                    *)

\* stored blocks besides Genesis
MaxBlocks == 3
\* transactions in a candidate block
MaxTxs == 2
\* blocks in a chain handed to AddBlocks
MaxChain == 3

---------------------------------------------------------------------------
(* Program constants.                                                      *)

MaxBlockReward == 1000
MaxTransactionsPerBlock == 100
GenesisNonce == 39611433
MD5Size == 16
V1 == 0
V2 == 1

\* int64, narrowed to 21 bits so that sums stay inside TLC's integers
MaxInt64 == 2^20 - 1
MinInt64 == 0 - 2^20

\* Go's wrapping int64 addition
Add64(a, b) ==
    LET s == a + b
    IN  IF s > MaxInt64 THEN s - 2^21
        ELSE IF s < MinInt64 THEN s + 2^21
        ELSE s

\* overflow.Add64: the sum and whether it is exact
OverflowAdd64(a, b) == [sum |-> Add64(a, b), ok |-> Add64(a, b) = a + b]

---------------------------------------------------------------------------
(* Errors.                                                                 *)

Nil == [kind |-> "nil", msg |-> ""]
ErrUnknownParent == [kind |-> "error", msg |-> "cryptopuff: unknown parent block"]
\* Message and Cause as one text; the operands Sprintf formats into a Message
\* are left out
InvalidBlockError(m) == [kind |-> "InvalidBlockError", msg |-> m]
IsInvalidBlockError(e) == e.kind = "InvalidBlockError"

---------------------------------------------------------------------------
(* Keys, addresses and hashes.                                             *)

Keys == {"k1", "k2"}

\* md5.Sum of the PKCS#1 encoding of a public key: 16 bytes
KeyDigest(k) == [i \in 1..MD5Size |-> IF k = "k1" THEN 17 ELSE 34]

AddressFromKey(version, k) ==
    IF version = V1 THEN SubSeq(KeyDigest(k), 1, 2) ELSE KeyDigest(k)

\* the sum of the bytes of a sequence
SumSeq(s) ==
    LET sum[i \in 0..Len(s)] == IF i = 0 THEN 0 ELSE sum[i - 1] + s[i]
    IN  sum[Len(s)]

\* A digest is its three leading bytes and the stream that was hashed: two
\* digests are equal exactly when the streams are (no collisions).  The
\* leading bytes are spread by a weight of the stream, taken modulo 8.
MD5(weight, stream) ==
    [b0 |-> 0, b1 |-> (weight \div 4) % 2, b2 |-> (weight % 4) * 2, in |-> stream]

EmptyHash == [b0 |-> 0, b1 |-> 0, b2 |-> 0, in |-> <<>>]

HashWeight(h) == h.b1 * 4 + (h.b2 \div 2)

\* Hash.Valid: h[0] == 0 && h[1] == 0 && h[2]&0xfc == 0
HashValid(h) == h.b0 = 0 /\ h.b1 = 0 /\ (h.b2 \div 4) = 0

\* Hash.Value: the empty hash is stored as SQL NULL
NULL == [b0 |-> 0 - 1, b1 |-> 0 - 1, b2 |-> 0 - 1, in |-> <<>>]
HashValue(h) == IF h = EmptyHash THEN NULL ELSE h

\* SQL's "=": never true of NULL
SqlEq(a, b) == a # NULL /\ b # NULL /\ a = b

---------------------------------------------------------------------------
(* Transactions (tx.go).                                                   *)

Tx(source, destination, amount, fee) ==
    [Source |-> source, Destination |-> destination, Amount |-> amount, Fee |-> fee]

\* json.Marshal(Tx): the embedded TxOutput first, then Source and Fee
TxJSON(t) == <<t.Destination, t.Amount, t.Source, t.Fee>>

ValidAmounts(t) ==
    IF t.Fee < 0 THEN "cryptopuff: negative fee"
    ELSE IF t.Amount <= 0 THEN "cryptopuff: negative or zero amount"
    ELSE IF ~OverflowAdd64(t.Fee, t.Amount).ok THEN "cryptopuff: fee plus amount overflows"
    ELSE ""

RequiredBalance(t) == Add64(t.Fee, t.Amount)

\* json.Marshal(SignedTx): Hash is tagged json:"-" and is left out
SignedTxJSON(s) ==
    <<s.Destination, s.Amount, s.Source, s.Fee, s.ID, s.Signature, s.PublicKey>>

\* SignedTx.UpdateHash
TxHash(j) == MD5((j[2] + j[4] + j[5]) % 8, j)
SignedTxUpdateHash(s) == [s EXCEPT !.Hash = TxHash(SignedTxJSON(s))]

\* json.Unmarshal followed by UpdateHash
DecodeSignedTx(j) ==
    SignedTxUpdateHash(
        [Source |-> j[3], Destination |-> j[1], Amount |-> j[2], Fee |-> j[4],
         Hash |-> EmptyHash, ID |-> j[5], Signature |-> j[6], PublicKey |-> j[7]])

\* rsa.SignPSS over md5(json(Tx)) with key k, and rsa.VerifyPSS
SignPSS(k, message) == <<k, message>>
VerifyPSS(k, message, sig) == sig = <<k, message>>

\* Tx.Sign
Sign(t, k, id) ==
    SignedTxUpdateHash(
        [Source |-> t.Source, Destination |-> t.Destination, Amount |-> t.Amount,
         Fee |-> t.Fee, Hash |-> EmptyHash, ID |-> id,
         Signature |-> SignPSS(k, TxJSON(t)), PublicKey |-> k])

TxOf(s) == Tx(s.Source, s.Destination, s.Amount, s.Fee)

ValidSignature(s) ==
    IF s.PublicKey \notin Keys THEN "cryptopuff: failed to parse public key"
    ELSE IF /\ AddressFromKey(V1, s.PublicKey) # s.Source
            /\ AddressFromKey(V2, s.PublicKey) # s.Source
         THEN "cryptopuff: address doesn't match public key"
    ELSE IF ~VerifyPSS(s.PublicKey, TxJSON(TxOf(s)), s.Signature)
         THEN "cryptopuff: invalid signature"
    ELSE ""

\* SignedTx.Valid without the call of ValidSignature
SignedTxValidAmountsOnly(s) ==
    IF ValidAmounts(TxOf(s)) # ""
        THEN InvalidBlockError("cryptopuff: invalid amounts: " \o ValidAmounts(TxOf(s)))
    ELSE Nil

\* SignedTx.Valid
SignedTxValid(s) ==
    IF ValidAmounts(TxOf(s)) # ""
        THEN InvalidBlockError("cryptopuff: invalid amounts: " \o ValidAmounts(TxOf(s)))
    ELSE IF ValidSignature(s) # ""
        THEN InvalidBlockError("cryptopuff: invalid signature: " \o ValidSignature(s))
    ELSE Nil

---------------------------------------------------------------------------
(* Blocks (block.go).                                                      *)

TxsJSON(stxs) == [i \in 1..Len(stxs) |-> SignedTxJSON(stxs[i])]

TxsWeight(js) ==
    IF js = <<>> THEN 0
    ELSE Len(js) + HashWeight(TxHash(js[1])) + 2 * HashWeight(TxHash(js[Len(js)]))

\* json.Marshal(Block): Hash is tagged json:"-" and is left out
BlockJSON(b) ==
    [PreviousHash |-> b.PreviousHash, Height |-> b.Height, Nonce |-> b.Nonce,
     RewardOutput |-> b.RewardOutput, Transactions |-> TxsJSON(b.Transactions)]

\* Block.UpdateHash: md5 over PreviousHash, Height, Nonce, len(Destination),
\* Destination, Amount and the md5 of the marshalled transaction list
BlockWeight(prevHash, height, nonce, addr, reward, txsWeight) ==
    (HashWeight(prevHash) + height + nonce + Len(addr) + SumSeq(addr) + reward
        + (txsWeight % 8)) % 8

BlockDigest(j, txListHash) ==
    MD5(BlockWeight(j.PreviousHash, j.Height, j.Nonce, j.RewardOutput.Destination,
                    j.RewardOutput.Amount, HashWeight(txListHash)),
        <<j.PreviousHash, j.Height, j.Nonce, Len(j.RewardOutput.Destination),
          j.RewardOutput.Destination, j.RewardOutput.Amount, txListHash>>)

\* the marshalled block and the md5 of its transaction list are computed
\* once
BlockHashOf(j) ==
    CHOOSE h \in {BlockDigest(v[1], v[2]) :
                    v \in {<<j, MD5(TxsWeight(j.Transactions) % 8, j.Transactions)>>}} : TRUE

UpdateHashes(stxs) == [i \in 1..Len(stxs) |-> SignedTxUpdateHash(stxs[i])]

BlockUpdateHash(b) ==
    CHOOSE r \in {[v EXCEPT !.Hash = BlockHashOf(BlockJSON(v)),
                            !.Transactions = UpdateHashes(v.Transactions)] : v \in {b}} : TRUE

DecodeTxs(js) == [i \in 1..Len(js) |-> DecodeSignedTx(js[i])]

\* DecodeBlock: json.Unmarshal followed by UpdateHash
DecodeBlock(j) ==
    [Hash |-> BlockHashOf(j), PreviousHash |-> j.PreviousHash, Height |-> j.Height,
     Nonce |-> j.Nonce, RewardOutput |-> j.RewardOutput,
     Transactions |-> DecodeTxs(j.Transactions)]

\* NewBlock with the Height of the previous block
NewBlockSameHeight(previous, nonce, addr, blockReward, stxs) ==
    BlockUpdateHash(
        [Hash |-> EmptyHash, PreviousHash |-> previous.Hash,
         Height |-> previous.Height, Nonce |-> nonce,
         RewardOutput |-> [Destination |-> addr, Amount |-> blockReward],
         Transactions |-> stxs])

\* NewBlock
NewBlock(previous, nonce, addr, blockReward, stxs) ==
    BlockUpdateHash(
        [Hash |-> EmptyHash, PreviousHash |-> previous.Hash,
         Height |-> previous.Height + 1, Nonce |-> nonce,
         RewardOutput |-> [Destination |-> addr, Amount |-> blockReward],
         Transactions |-> stxs])

GenesisBlock ==
    BlockUpdateHash(
        [Hash |-> EmptyHash, PreviousHash |-> EmptyHash, Height |-> 0,
         Nonce |-> GenesisNonce, RewardOutput |-> [Destination |-> <<>>, Amount |-> 0],
         Transactions |-> <<>>])

\* for _, t := range b.Transactions { if err := t.Valid(); err != nil { return err } }
FirstInvalidTx(stxs) ==
    LET bad == {i \in 1..Len(stxs) : SignedTxValid(stxs[i]) # Nil}
    IN  IF bad = {} THEN Nil
        ELSE SignedTxValid(stxs[CHOOSE i \in bad : \A j \in bad : i <= j])

\* Block.Valid without the comparison of heights
BlockValidAnyHeight(b, previous) ==
    IF b.PreviousHash # previous.Hash
        THEN InvalidBlockError("cryptopuff: previous hash mismatch")
    ELSE IF ~HashValid(b.Hash)
        THEN InvalidBlockError("cryptopuff: hash doesn't meet difficulty requirement")
    ELSE IF b.RewardOutput.Amount < 0 \/ b.RewardOutput.Amount > MaxBlockReward
        THEN InvalidBlockError("cryptopuff: reward amount negative or greater than maximum")
    ELSE IF Len(b.Transactions) > MaxTransactionsPerBlock
        THEN InvalidBlockError("cryptopuff: number of transactions greater than maximum")
    ELSE FirstInvalidTx(b.Transactions)

\* Block.Valid
BlockValid(b, previous) ==
    IF b.PreviousHash # previous.Hash
        THEN InvalidBlockError("cryptopuff: previous hash mismatch")
    ELSE IF b.Height # previous.Height + 1
        THEN InvalidBlockError("cryptopuff: height mismatch")
    ELSE IF ~HashValid(b.Hash)
        THEN InvalidBlockError("cryptopuff: hash doesn't meet difficulty requirement")
    ELSE IF b.RewardOutput.Amount < 0 \/ b.RewardOutput.Amount > MaxBlockReward
        THEN InvalidBlockError("cryptopuff: reward amount negative or greater than maximum")
    ELSE IF Len(b.Transactions) > MaxTransactionsPerBlock
        THEN InvalidBlockError("cryptopuff: number of transactions greater than maximum")
    ELSE FirstInvalidTx(b.Transactions)

---------------------------------------------------------------------------
(* The tables (migrate) and the statements the store operations run.       *)

BlockRow(b) ==
    [hash |-> HashValue(b.Hash), previous_hash |-> HashValue(b.PreviousHash),
     height |-> b.Height, block |-> BlockJSON(b)]

TxRow(stx) ==
    [hash |-> HashValue(stx.Hash), source |-> stx.Source,
     destination |-> stx.Destination, amount |-> stx.Amount, fee |-> stx.Fee,
     tx |-> SignedTxJSON(stx)]

\* migrate: the tables as created, with the Genesis row
EmptyDB ==
    [blocks |-> {BlockRow(GenesisBlock)}, balances |-> {}, included_txs |-> {},
     block_txs |-> {}, txs |-> {}]

\* SELECT block FROM blocks WHERE hash = ?
SelectBlock(s, h) == {r \in s.blocks : SqlEq(r.hash, HashValue(h))}

\* SELECT balance FROM balances WHERE block_hash = ? AND address = ?
SelectBalance(s, h, a) ==
    {r \in s.balances : SqlEq(r.block_hash, HashValue(h)) /\ r.address = a}

\* INSERT INTO balances (...) SELECT ?, address, balance FROM balances WHERE block_hash = ?
CopyBalances(s, to, from) ==
    [s EXCEPT !.balances = @ \cup
        {[block_hash |-> HashValue(to), address |-> r.address, balance |-> r.balance] :
            r \in {x \in s.balances : SqlEq(x.block_hash, HashValue(from))}}]

\* addBlock without the copy of the parent's inclusion set
CopyIncludedNothing(s, to, from) == s

\* INSERT INTO included_txs (...) SELECT ?, tx_hash FROM included_txs WHERE block_hash = ?
CopyIncluded(s, to, from) ==
    [s EXCEPT !.included_txs = @ \cup
        {[block_hash |-> HashValue(to), tx_hash |-> r.tx_hash] :
            r \in {x \in s.included_txs : SqlEq(x.block_hash, HashValue(from))}}]

\* UPDATE balances SET balance = balance - ? WHERE block_hash = ? AND address = ?
Debit(s, h, a, amount) ==
    [s EXCEPT !.balances =
        {IF SqlEq(r.block_hash, HashValue(h)) /\ r.address = a
            THEN [r EXCEPT !.balance = @ - amount] ELSE r : r \in @}]

\* INSERT INTO balances (...) VALUES (?, ?, ?)
\* ON CONFLICT (block_hash, address) DO UPDATE SET balance = balance + excluded.balance
Credit(s, h, a, amount) ==
    IF SelectBalance(s, h, a) # {}
    THEN [s EXCEPT !.balances =
            {IF SqlEq(r.block_hash, HashValue(h)) /\ r.address = a
                THEN [r EXCEPT !.balance = @ + amount] ELSE r : r \in @}]
    ELSE [s EXCEPT !.balances = @ \cup
            {[block_hash |-> HashValue(h), address |-> a, balance |-> amount]}]

\* DELETE FROM balances WHERE balance = 0
DeleteZeroBalances(s) == [s EXCEPT !.balances = {r \in @ : r.balance # 0}]

\* INSERT INTO included_txs (block_hash, tx_hash) VALUES (?, ?)
InsertIncluded(s, h, t) ==
    [s EXCEPT !.included_txs = @ \cup {[block_hash |-> HashValue(h), tx_hash |-> HashValue(t)]}]

\* INSERT INTO block_txs (block_hash, tx_hash) VALUES (?, ?)
InsertBlockTx(s, h, t) ==
    [s EXCEPT !.block_txs = @ \cup {[block_hash |-> HashValue(h), tx_hash |-> HashValue(t)]}]

\* addTx: INSERT OR IGNORE INTO txs
addTx(s, stx) ==
    IF \E r \in s.txs : r.hash = HashValue(stx.Hash) THEN s
    ELSE [s EXCEPT !.txs = @ \cup {TxRow(stx)}]

\* validTx without the comparison of the balance with RequiredBalance
validTxAnyBalance(s, stx, tip) ==
    LET e == SignedTxValid(stx)
    IN  IF e # Nil THEN e
        ELSE IF \E r \in s.included_txs :
                    /\ SqlEq(r.block_hash, HashValue(tip))
                    /\ SqlEq(r.tx_hash, HashValue(stx.Hash))
            THEN InvalidBlockError("cryptopuff: transaction already included in blockchain")
        ELSE Nil

\* validTx without the lookup in included_txs
validTxReplayAllowed(s, stx, tip) ==
    LET e == SignedTxValid(stx)
        rows == SelectBalance(s, tip, stx.Source)
        balance == IF rows = {} THEN 0 ELSE (CHOOSE r \in rows : TRUE).balance
    IN  IF e # Nil THEN e
        ELSE IF balance < RequiredBalance(stx)
                THEN InvalidBlockError("cryptopuff: insufficient balance")
             ELSE Nil

\* validTx
validTx(s, stx, tip) ==
    LET e == SignedTxValid(stx)
        rows == SelectBalance(s, tip, stx.Source)
        balance == IF rows = {} THEN 0 ELSE (CHOOSE r \in rows : TRUE).balance
    IN  IF e # Nil THEN e
        ELSE IF balance < RequiredBalance(stx)
                THEN InvalidBlockError("cryptopuff: insufficient balance")
             ELSE IF \E r \in s.included_txs :
                        /\ SqlEq(r.block_hash, HashValue(tip))
                        /\ SqlEq(r.tx_hash, HashValue(stx.Hash))
                THEN InvalidBlockError("cryptopuff: transaction already included in blockchain")
             ELSE Nil

---------------------------------------------------------------------------
(* addBlock.  A closure's result is the tables as the closure left them    *)
(* and the error it returned.                                              *)

\* the loop body of addBlock for one transaction that passed validTx
ApplyTx(s, stx, h) ==
    InsertBlockTx(
        InsertIncluded(
            addTx(Credit(Debit(s, h, stx.Source, RequiredBalance(stx)),
                         h, stx.Destination, stx.Amount),
                  stx),
            h, stx.Hash),
        h, stx.Hash)

\* for _, stx := range block.Transactions { fee += stx.Fee; validTx; ... }
RECURSIVE ApplyTxs(_, _, _, _)
ApplyTxs(s, block, i, fee) ==
    IF i > Len(block.Transactions) THEN [db |-> s, err |-> Nil, fee |-> fee]
    ELSE LET stx == block.Transactions[i]
             e == validTx(s, stx, block.Hash)
         IN  IF e # Nil THEN [db |-> s, err |-> e, fee |-> Add64(fee, stx.Fee)]
             ELSE ApplyTxs(ApplyTx(s, stx, block.Hash), block, i + 1, Add64(fee, stx.Fee))

\* the credit of the reward destination with the reward alone, fees left out
CreditRewardOnly(s, block, fee) ==
    IF block.RewardOutput.Amount > 0
    THEN Credit(s, block.Hash, block.RewardOutput.Destination, block.RewardOutput.Amount)
    ELSE s

\* if fee > 0 { credit the reward destination }
CreditReward(s, block, fee) ==
    IF fee > 0 THEN Credit(s, block.Hash, block.RewardOutput.Destination, fee) ELSE s

\* INSERT INTO blocks; then the copies of the parent's balances and inclusion set
InsertBlock(s, block) ==
    CopyIncluded(
        CopyBalances([s EXCEPT !.blocks = @ \cup {BlockRow(block)}],
                     block.Hash, block.PreviousHash),
        block.Hash, block.PreviousHash)

\* addBlock from the insert of the block row on, for a block that is not stored
addNewBlock(s, block, previous) ==
    LET s1 == InsertBlock(s, block)
        e == BlockValid(block, previous)
    IN  IF e # Nil THEN [db |-> s1, err |-> e]
        ELSE LET r == ApplyTxs(s1, block, 1, block.RewardOutput.Amount)
             IN  IF r.err # Nil THEN [db |-> r.db, err |-> r.err]
                 ELSE [db |-> DeleteZeroBalances(CreditReward(r.db, block, r.fee)),
                       err |-> Nil]

\* addBlock answering nil, not ErrUnknownParent, when the parent is missing
addBlockIgnoreOrphans(s, block) ==
    LET parents == SelectBlock(s, block.PreviousHash)
    IN
    IF parents = {} THEN [db |-> s, err |-> Nil]
    ELSE IF \E r \in s.blocks : r.hash = HashValue(block.Hash)
        THEN [db |-> s, err |-> Nil]
    ELSE addNewBlock(s, block, DecodeBlock((CHOOSE r \in parents : TRUE).block))

\* addBlock going on after the insert of a block row that is already there
addBlockReinsert(s, block) ==
    LET parents == SelectBlock(s, block.PreviousHash)
    IN
    IF parents = {} THEN [db |-> s, err |-> ErrUnknownParent]
    ELSE addNewBlock(s, block, DecodeBlock((CHOOSE r \in parents : TRUE).block))

addBlock(s, block) ==
    LET parents == SelectBlock(s, block.PreviousHash)
    IN
    IF parents = {} THEN [db |-> s, err |-> ErrUnknownParent]
    ELSE IF \E r \in s.blocks : r.hash = HashValue(block.Hash)
        \* the primary key fails the insert: the block is already stored
        THEN [db |-> s, err |-> Nil]
    ELSE addNewBlock(s, block, DecodeBlock((CHOOSE r \in parents : TRUE).block))

---------------------------------------------------------------------------
(* Transact and the operations built from it.                              *)

\* Transact committing whatever the closure returned
TransactAlwaysCommit(s, r) == r

\* Transact: commit when the closure returned nil, roll back otherwise
Transact(s, r) == IF r.err = Nil THEN [db |-> r.db, err |-> Nil] ELSE [db |-> s, err |-> r.err]

\* DB.AddBlock
AddBlock(s, block) == Transact(s, addBlock(s, block))

\* the index of the first block of the chain that is stored, 0 if none
RECURSIVE DivergedAt(_, _, _)
DivergedAt(s, chain, i) ==
    IF i > Len(chain) THEN 0
    ELSE IF \E r \in s.blocks : r.hash = HashValue(chain[i].Hash) THEN i
    ELSE DivergedAt(s, chain, i + 1)

\* the loop of AddBlocks left after its first iteration
ApplyChainOnce(s, chain, i) ==
    IF i < 1 THEN [db |-> s, err |-> Nil] ELSE addBlock(s, chain[i])

\* for i := divergedAt - 1; i >= 0; i-- { addBlock(tx, &blocks[i]) }
RECURSIVE ApplyChain(_, _, _)
ApplyChain(s, chain, i) ==
    IF i < 1 THEN [db |-> s, err |-> Nil]
    ELSE LET r == addBlock(s, chain[i])
         IN  IF r.err # Nil THEN r ELSE ApplyChain(r.db, chain, i - 1)

\* the closure of DB.AddBlocks; indices are 1-based, Go's divergedAt is d - 1
addBlocks(s, chain) ==
    LET d == DivergedAt(s, chain, 1)
    IN  IF d - 1 <= 0 THEN [db |-> s, err |-> Nil] ELSE ApplyChain(s, chain, d - 1)

\* DB.AddBlocks
AddBlocks(s, chain) == Transact(s, addBlocks(s, chain))

\* the query without its ORDER BY: any row of the table
BestBlocksAnyRow(s) == s.blocks

\* bestBlockHash / DB.BestBlock: ORDER BY height DESC LIMIT 1 leaves the
\* choice among the rows of greatest height to the store
BestBlocks(s) == {r \in s.blocks : \A x \in s.blocks : x.height <= r.height}

\* DB.BestBlock: the row the query returned, decoded
BestBlock(s, tipRow) == DecodeBlock(tipRow.block)

\* the recursive query of DB.Blocks: f starts as the tip's row; the parent of
\* the row read last joins f unless UNION finds the same row in it already
RECURSIVE BlocksQuery(_, _)
BlocksQuery(s, f) ==
    LET last == f[Len(f)]
        new == {b \in s.blocks :
                    /\ SqlEq(last.previous_hash, b.hash)
                    /\ \A k \in 1..Len(f) :
                        <<f[k].previous_hash, f[k].block>> # <<b.previous_hash, b.block>>}
    IN  IF new = {} THEN f ELSE BlocksQuery(s, Append(f, CHOOSE b \in new : TRUE))

\* DB.Blocks: the rows of f, decoded in the order the query returned them
Blocks(s, tipRow) ==
    LET f == BlocksQuery(s, <<tipRow>>)
    IN  [k \in 1..Len(f) |-> DecodeBlock(f[k].block)]

\* Hash.Scan
HashScan(v) == IF v = NULL THEN EmptyHash ELSE v

\* DB.AddTx with a plain INSERT: a row that is already there fails the insert
AddTxPlainInsert(s, stx, tipRow) ==
    LET e == validTx(s, stx, HashScan(tipRow.hash))
    IN  Transact(s,
            IF e # Nil THEN [db |-> s, err |-> e]
            ELSE IF \E r \in s.txs : r.hash = HashValue(stx.Hash)
                THEN [db |-> s, err |-> [kind |-> "sqlite3.Error", msg |-> "ErrConstraint"]]
            ELSE [db |-> addTx(s, stx), err |-> Nil])

\* DB.AddTx, against the tip row the store picked
AddTx(s, stx, tipRow) ==
    LET e == validTx(s, stx, HashScan(tipRow.hash))
    IN  Transact(s, IF e # Nil THEN [db |-> s, err |-> e] ELSE [db |-> addTx(s, stx), err |-> Nil])

\* validTemporaryTx, against the rows of temp_balances
validTemporaryTx(temp, stx) ==
    LET e == SignedTxValid(stx)
        rows == {r \in temp : r.address = stx.Source}
        balance == IF rows = {} THEN 0 ELSE (CHOOSE r \in rows : TRUE).balance
    IN  IF e # Nil THEN e
        ELSE IF balance < RequiredBalance(stx)
                THEN InvalidBlockError("cryptopuff: insufficient balance")
             ELSE Nil

\* DELETE FROM txs WHERE hash = ?, whatever refers to the row
DeleteAnyTx(s, h) == [s EXCEPT !.txs = {r \in @ : ~SqlEq(r.hash, HashValue(h))}]

\* DELETE FROM txs WHERE hash = ? AND NOT EXISTS (block_txs) AND NOT EXISTS (included_txs)
DeleteTransientTx(s, h) ==
    IF \/ \E r \in s.block_txs : SqlEq(r.tx_hash, HashValue(h))
       \/ \E r \in s.included_txs : SqlEq(r.tx_hash, HashValue(h))
    THEN s
    ELSE [s EXCEPT !.txs = {r \in @ : ~SqlEq(r.hash, HashValue(h))}]

\* the updates of temp_balances without the debit of the source
TempApplyCreditOnly(temp, stx) ==
    IF \E r \in temp : r.address = stx.Destination
    THEN {IF r.address = stx.Destination
            THEN [r EXCEPT !.balance = @ + stx.Amount] ELSE r : r \in temp}
    ELSE temp \cup {[address |-> stx.Destination, balance |-> stx.Amount]}

\* the two updates of temp_balances for an accepted transaction
TempApply(temp, stx) ==
    LET debited == {IF r.address = stx.Source
                        THEN [r EXCEPT !.balance = @ - RequiredBalance(stx)] ELSE r : r \in temp}
    IN  IF \E r \in debited : r.address = stx.Destination
        THEN {IF r.address = stx.Destination
                THEN [r EXCEPT !.balance = @ + stx.Amount] ELSE r : r \in debited}
        ELSE debited \cup {[address |-> stx.Destination, balance |-> stx.Amount]}

\* SELECT tx FROM txs, with no look at included_txs
PendingRowsAll(s, tip) == s.txs

\* SELECT tx FROM txs t LEFT JOIN included_txs i ON ... WHERE i.tx_hash IS NULL
PendingRows(s, tip) ==
    {t \in s.txs : ~\E i \in s.included_txs :
        SqlEq(i.tx_hash, t.hash) /\ SqlEq(i.block_hash, HashValue(tip))}

\* for rows.Next() { ... }: the rows come in the order the store yields them
RECURSIVE PendingLoop(_, _, _, _, _, _)
PendingLoop(s, temp, rows, i, stxs, limit) ==
    IF i > Len(rows) THEN [db |-> s, err |-> Nil, stxs |-> stxs]
    ELSE LET stx == DecodeSignedTx(rows[i].tx)
             e == validTemporaryTx(temp, stx)
         IN  IF IsInvalidBlockError(e)
                THEN PendingLoop(DeleteTransientTx(s, stx.Hash), temp, rows, i + 1, stxs, limit)
             ELSE IF Len(stxs) + 1 >= limit
                THEN [db |-> s, err |-> Nil, stxs |-> Append(stxs, stx)]
             ELSE PendingLoop(s, TempApply(temp, stx), rows, i + 1, Append(stxs, stx), limit)

\* DB.PendingTxs, with the pending rows in the order the store yields them
PendingTxs(s, tip, limit, rows) ==
    LET temp == {[address |-> r.address, balance |-> r.balance] :
                    r \in {x \in s.balances : SqlEq(x.block_hash, HashValue(tip))}}
        r == PendingLoop(s, temp, rows, 1, <<>>, limit)
    IN  [db |-> Transact(s, r).db, err |-> r.err, stxs |-> r.stxs]

\* the orders in which a set of rows can be yielded
RECURSIVE Orders(_)
Orders(S) ==
    IF S = {} THEN {<<>>}
    ELSE UNION {{<<x>> \o o : o \in Orders(S \ {x})} : x \in S}

---------------------------------------------------------------------------
(* Inputs: the keys' addresses, the transactions peers and wallets submit, *)
(* the blocks peers push and the chains peers answer with.                 *)

A1 == AddressFromKey(V1, "k1")
A2 == AddressFromKey(V1, "k2")
A1v2 == AddressFromKey(V2, "k1")

\* rand.Int63() nonces, as many as the search needs to hit a valid hash
Nonces == {0, 2, 4, 6}
RewardInputs == {0, 2}
LimitInputs == {0, 1, 10}

\* transactions that can be spent once a reward has reached A1: two spends
\* of A1, one of them with a fee, and a transfer of A2 to itself
SpendableTxs ==
    { Sign(Tx(A1, A2, 1, 1), "k1", 1),
      Sign(Tx(A1, A2, 2, 0), "k1", 1),
      Sign(Tx(A2, A2, 1, 0), "k2", 1) }

ValidFormTxs == SpendableTxs \cup {Sign(Tx(A1v2, A2, 1, 0), "k1", 1)}

InvalidFormTxs ==
    { Sign(Tx(A1, A2, 0, 1), "k1", 1),
      Sign(Tx(A1, A2, 1, 0 - 1), "k1", 1),
      Sign(Tx(A1, A2, MaxInt64, 1), "k1", 1),
      Sign(Tx(A2, A1, 1, 0), "k1", 1),
      SignedTxUpdateHash([Sign(Tx(A1, A2, 1, 1), "k1", 1) EXCEPT
                            !.Signature = SignPSS("k2", TxJSON(Tx(A1, A2, 1, 1)))]) }

TxInputs == ValidFormTxs \cup InvalidFormTxs

RECURSIVE SeqsUpTo(_, _)
SeqsUpTo(S, n) ==
    IF n = 0 THEN {<<>>}
    ELSE SeqsUpTo(S, n - 1) \cup
         {Append(q, x) : q \in {p \in SeqsUpTo(S, n - 1) : Len(p) = n - 1}, x \in S}

TooManyTxs == [i \in 1..(MaxTransactionsPerBlock + 1) |-> Sign(Tx(A1, A2, 1, 1), "k1", 1)]

TxListInputs == SeqsUpTo(SpendableTxs, MaxTxs)

FaultyTxListInputs == {<<t>> : t \in InvalidFormTxs \cup (ValidFormTxs \ SpendableTxs)}

Candidate(prevHash, height, nonce, addr, reward, stxs) ==
    BlockUpdateHash(
        [Hash |-> EmptyHash, PreviousHash |-> prevHash, Height |-> height,
         Nonce |-> nonce, RewardOutput |-> [Destination |-> addr, Amount |-> reward],
         Transactions |-> stxs])

\* the search of mine(): the nonce whose hash is valid
Mined(prevHash, height, addr, reward, stxs) ==
    Candidate(prevHash, height,
              CHOOSE n \in Nonces : HashValid(MD5(
                BlockWeight(prevHash, height, n, addr, reward, TxsWeight(TxsJSON(stxs))), <<>>)),
              addr, reward, stxs)

\* the same block with a nonce whose hash is not valid
Unmined(prevHash, height, addr, reward, stxs) ==
    Candidate(prevHash, height,
              CHOOSE n \in Nonces : ~HashValid(MD5(
                BlockWeight(prevHash, height, n, addr, reward, TxsWeight(TxsJSON(stxs))), <<>>)),
              addr, reward, stxs)

StoredBlocks(s) == {DecodeBlock(r.block) : r \in s.blocks}
Hashes(s) == {b.Hash : b \in StoredBlocks(s)}

\* blocks on top of p: well-formed headers over every transaction list, and
\* one block for each header fault
BlocksOn(p) ==
    {Mined(p.Hash, p.Height + 1, A1, r, l) : r \in RewardInputs, l \in TxListInputs}
    \cup {Mined(p.Hash, p.Height + 1, A1, 2, l) : l \in FaultyTxListInputs}
    \cup {Mined(p.Hash, p.Height + 2, A1, 2, <<>>),
          Unmined(p.Hash, p.Height + 1, A1, 2, <<>>),
          Mined(p.Hash, p.Height + 1, A1, 0 - 1, <<>>),
          Mined(p.Hash, p.Height + 1, A1, MaxBlockReward + 1, <<>>)}

\* a block no node stores, to be the parent of orphans
Stranger == Mined(GenesisBlock.Hash, 1, A2, 1, <<>>)

\* blocks whose fate does not depend on what is stored
FixedBlockInputs ==
    {GenesisBlock,
     Mined(GenesisBlock.Hash, 1, A1, 2, TooManyTxs),
     Mined(Stranger.Hash, 2, A1, 2, <<>>),
     Mined(EmptyHash, 1, A1, 2, <<>>)}

BlockInputs(s) ==
    UNION {BlocksOn(p) : p \in StoredBlocks(s)}
    \cup FixedBlockInputs

\* chains a peer answers GET /api/blocks with, tip first: up to MaxChain
\* blocks stacked on a stored block or on the stranger, with or without
\* that base, and the stored chain itself
StackOn(p) ==
    {Mined(p.Hash, p.Height + 1, A1, 2, l) : l \in {<<>>, <<Sign(Tx(A1, A2, 1, 1), "k1", 1)>>}}
    \cup {Mined(p.Hash, p.Height + 1, A1, MaxBlockReward + 1, <<>>)}

RECURSIVE Stacks(_, _)
Stacks(p, n) ==
    IF n = 0 THEN {<<>>}
    ELSE {<<>>} \cup UNION {{c \o <<b>> : c \in Stacks(b, n - 1)} : b \in StackOn(p)}

ChainInputs(s) ==
    UNION {{c \o <<p>> : c \in Stacks(p, MaxChain - 1)} \cup Stacks(p, MaxChain - 1) :
            p \in StoredBlocks(s) \cup {Stranger}}
    \cup {<<b, GenesisBlock>> : b \in StoredBlocks(s)}

---------------------------------------------------------------------------
(* The state machine: one step per store call.  A call that fails, or that *)
(* finds nothing to do, leaves the tables as they were.                    *)

\* no call of TransactWithRetry is under way
RtIdle == [pc |-> "idle", tries |-> 0, i |-> 0, err |-> Nil, ret |-> Nil,
           log |-> <<>>, logger |-> <<>>]

\* no call of Hash.Valid is under way
HvIdle == [pc |-> "idle", h |-> EmptyHash, valid |-> FALSE]

\* searchers of the miner in the model; Serve starts three
MaxSearchers == 2

Searchers == 1..MaxSearchers

\* bestBlockVersion is a uint64; the model keeps it modulo MaxVersion + 1
MaxVersion == 2

\* a searcher before `go s.mine()`, and at the top of the loop newBestBlock:
\* nothing read yet, no candidate (var next *Block)
SearcherAt(pc) ==
    [pc |-> pc, addr |-> <<>>, version |-> 0, block |-> GenesisBlock, stxs |-> <<>>,
     next |-> <<>>, read |-> {}, lastLoad |-> -1, preempted |-> FALSE, inserted |-> FALSE]

\* the Server as NewServer leaves it, no task started; owed counts the
\* handlers and pulls that stored something and have their bump ahead
MnIdle ==
    [bestBlockVersion |-> 0, hashesPerSec |-> 0, blockReward |-> 0, exited |-> FALSE,
     owed |-> 0, s |-> [i \in Searchers |-> SearcherAt("off")]]

\* the database file before its first OpenDB: no keys, no miner address
KsClosed == [open |-> FALSE, keys |-> {}, miner_address |-> <<>>]

\* goroutines of the peer set in flight at once, in the model
MaxTasks == 2

Tasks == 1..MaxTasks

\* no goroutine runs in this slot
NoTask == [pc |-> "free", peer |-> <<>>]

\* a maintenance ping that has not happened
NoPing == [peer |-> <<>>, ok |-> TRUE, wellKnown |-> FALSE, before |-> FALSE, after |-> FALSE]

\* before NewServer: no address, an empty peers table, no goroutine; seen
\* and pinged keep, for the properties, the last string handed to
\* validateAndAddPeer and what the last maintenance ping led to; reach is
\* the set of addresses whose node answers a PING at the moment
PrIdle ==
    [up |-> FALSE, served |-> FALSE, extAddr |-> <<>>, client |-> <<>>,
     wellKnownPeers |-> {}, peers |-> {}, tasks |-> [t \in Tasks |-> NoTask],
     snapshot |-> {}, seen |-> <<>>, pinged |-> NoPing, reach |-> {}]

\* nothing was answered or pulled yet
NoEvent == [handler |-> "none"]

\* no request was served, no pull is under way, no sync runs; last keeps,
\* for the properties, what the last handler or pull did
GsIdle == [pulls |-> {}, sync |-> "idle", last |-> NoEvent]

Init ==
    /\ db = EmptyDB /\ rt = RtIdle /\ hv = HvIdle
    /\ mn = MnIdle /\ ks = KsClosed /\ pr = PrIdle /\ gs = GsIdle

\* the model stops storing blocks at MaxBlocks blocks besides Genesis
WithinBounds(s) == Cardinality(s.blocks) <= MaxBlocks + 1

\* POST /api/blocks, or a searcher's insert
DoAddBlock ==
    \E b \in BlockInputs(db) :
        LET r == AddBlock(db, b)
        IN  WithinBounds(r.db) /\ db' = r.db /\ UNCHANGED <<rt, hv, mn, ks, pr, gs>>

\* a pull of a peer's chain
DoAddBlocks ==
    \E c \in ChainInputs(db) :
        LET r == AddBlocks(db, c)
        IN  WithinBounds(r.db) /\ db' = r.db /\ UNCHANGED <<rt, hv, mn, ks, pr, gs>>

\* POST /api/txs, POST /api/txs/broadcast, or a pull of a peer's mempool
DoAddTx ==
    \E stx \in TxInputs, tip \in BestBlocks(db) :
        db' = AddTx(db, stx, tip).db /\ UNCHANGED <<rt, hv, mn, ks, pr, gs>>

\* a searcher's read of the pending transactions
DoPendingTxs ==
    \E tip \in Hashes(db), limit \in LimitInputs :
        \E rows \in Orders(PendingRows(db, tip)) :
            db' = PendingTxs(db, tip, limit, rows).db /\ UNCHANGED <<rt, hv, mn, ks, pr, gs>>

Next == DoAddBlock \/ DoAddBlocks \/ DoAddTx \/ DoPendingTxs

Spec == Init /\ [][Next]_vars

---------------------------------------------------------------------------
(* TransactWithRetry, one step per call it makes: Begin, the closure,     *)
(* Rollback or Commit, the test of the error, the sleep.  rt.log keeps    *)
(* what the call did, in order; rt.logger is what the logger printed.     *)

\* the loop stops at MaxTries attempts in the model
MaxTries == 3

\* tries: 3 in Open
DefaultTries == 3

cMax == 8

\* scale, in milliseconds
scale == 10

\* a sqlite3.Error with the given code
SqliteError(code) == [kind |-> "sqlite3.Error", msg |-> code]

\* TxError{cause, tries}
TxError(cause, tries) == [kind |-> "TxError", cause |-> cause, tries |-> tries]

\* errors.New("database: tries must be 1 or greater")
ErrTries == [kind |-> "error", msg |-> "database: tries must be 1 or greater"]

\* sqlite's deadlock predicate, the one cryptopuff opens its store with
isDeadlock(err) ==
    /\ err.kind = "sqlite3.Error"
    /\ err.msg \in {"ErrBusy", "ErrLocked", "ErrProtocol"}

\* BinaryExponentialBackoff: c is the draw of rand.Intn(cMax)
backoff(try, c) == (2 ^ (IF c < try THEN try ELSE c)) * scale

\* what Tries(n) can leave in d.tries
TriesInputs == {DefaultTries} \cup (-1..MaxTries)

\* what Begin can answer
BeginResults == {Nil, SqliteError("ErrBusy"), SqliteError("ErrCantOpen")}

\* what the closure can answer
ClosureResults ==
    {Nil, SqliteError("ErrBusy"), SqliteError("ErrLocked"), SqliteError("ErrProtocol"),
     SqliteError("ErrConstraint"), ErrUnknownParent}

\* what Rollback can answer
RollbackResults == {Nil, SqliteError("ErrIoErr")}

\* what Commit can answer
CommitResults == {Nil, SqliteError("ErrBusy"), SqliteError("ErrFull")}

\* one entry of rt.log: the call made during attempt i, its answer, and for a
\* sleep its duration
Event(op, i, err, d) == [op |-> op, i |-> i, err |-> err, d |-> d]

\* a deferred function that lets the rollback's error replace the closure's
AfterRollbackReturnsRerr(err, rerr) == IF rerr # Nil THEN rerr ELSE err

\* Transact's deferred function after tx.Rollback(): the error stays f's
AfterRollback(err, rerr) == err

\* a loop that sleeps after every retriable failure, the last one too
AfterAttemptSleepAlways(r) ==
    IF r.err = Nil THEN [r EXCEPT !.pc = "done", !.ret = Nil]
    ELSE IF ~isDeadlock(r.err) THEN [r EXCEPT !.pc = "done", !.ret = r.err]
    ELSE [r EXCEPT !.pc = "sleep"]

\* the loop body of TransactWithRetry after Transact has returned r.err
AfterAttempt(r) ==
    IF r.err = Nil THEN [r EXCEPT !.pc = "done", !.ret = Nil]
    ELSE IF ~isDeadlock(r.err) THEN [r EXCEPT !.pc = "done", !.ret = r.err]
    ELSE IF r.i # r.tries - 1 THEN [r EXCEPT !.pc = "sleep"]
    ELSE [r EXCEPT !.pc = "loop", !.i = @ + 1]

\* tries := d.tries; if tries == 0 { return errors.New(...) }
RtCall ==
    /\ rt.pc = "idle"
    /\ \E n \in TriesInputs :
        rt' = IF n = 0
              THEN [RtIdle EXCEPT !.pc = "done", !.tries = n, !.ret = ErrTries]
              ELSE [RtIdle EXCEPT !.pc = "loop", !.tries = n]
    /\ UNCHANGED <<db, hv, mn, ks, pr, gs>>

\* for i := 0; i < tries; i++, and the return after the loop
RtLoop ==
    /\ rt.pc = "loop"
    /\ rt' = IF rt.i < rt.tries
             THEN [rt EXCEPT !.pc = "begin"]
             ELSE [rt EXCEPT !.pc = "done", !.ret = TxError(rt.err, rt.tries)]
    /\ UNCHANGED <<db, hv, mn, ks, pr, gs>>

\* tx, err := d.db.Begin(); if err != nil { return err }
RtBegin ==
    /\ rt.pc = "begin"
    /\ \E e \in BeginResults :
        rt' = [rt EXCEPT !.log = Append(@, Event("Begin", rt.i, e, 0)),
                         !.err = e,
                         !.pc = IF e # Nil THEN "returned" ELSE "f"]
    /\ UNCHANGED <<db, hv, mn, ks, pr, gs>>

\* return f(tx)
RtClosure ==
    /\ rt.pc = "f"
    /\ \E e \in ClosureResults :
        rt' = [rt EXCEPT !.log = Append(@, Event("f", rt.i, e, 0)),
                         !.err = e,
                         !.pc = IF e # Nil THEN "rollback" ELSE "commit"]
    /\ UNCHANGED <<db, hv, mn, ks, pr, gs>>

\* the deferred function when err != nil
RtRollback ==
    /\ rt.pc = "rollback"
    /\ \E rerr \in RollbackResults :
        rt' = [rt EXCEPT !.log = Append(@, Event("Rollback", rt.i, rerr, 0)),
                         !.logger = IF rerr # Nil THEN Append(@, rerr) ELSE @,
                         !.err = AfterRollback(rt.err, rerr),
                         !.pc = "returned"]
    /\ UNCHANGED <<db, hv, mn, ks, pr, gs>>

\* the deferred function when err == nil: err = tx.Commit()
RtCommit ==
    /\ rt.pc = "commit"
    /\ \E e \in CommitResults :
        rt' = [rt EXCEPT !.log = Append(@, Event("Commit", rt.i, e, 0)),
                         !.err = e,
                         !.pc = "returned"]
    /\ UNCHANGED <<db, hv, mn, ks, pr, gs>>

\* err = d.Transact(f) has returned
RtReturned ==
    /\ rt.pc = "returned"
    /\ rt' = AfterAttempt([rt EXCEPT !.log = Append(@, Event("Transact", rt.i, rt.err, 0))])
    /\ UNCHANGED <<db, hv, mn, ks, pr, gs>>

\* duration := d.backoff(i); time.Sleep(duration)
RtSleep ==
    /\ rt.pc = "sleep"
    /\ \E c \in 0..(cMax - 1) :
        rt' = [rt EXCEPT !.log = Append(@, Event("Sleep", rt.i, Nil, backoff(rt.i, c))),
                         !.pc = "loop",
                         !.i = @ + 1]
    /\ UNCHANGED <<db, hv, mn, ks, pr, gs>>

\* the caller takes the answer; the next call starts afresh
RtDone ==
    /\ rt.pc = "done"
    /\ rt' = RtIdle
    /\ UNCHANGED <<db, hv, mn, ks, pr, gs>>

RetryNext ==
    RtCall \/ RtLoop \/ RtBegin \/ RtClosure \/ RtRollback \/ RtCommit
        \/ RtReturned \/ RtSleep \/ RtDone

RetrySpec == Init /\ [][RetryNext]_vars

---------------------------------------------------------------------------
(* Hash.Valid on its own: one call on any hash.  Valid reads the three     *)
(* leading bytes only; the thirteen others stay in the stream part.        *)

\* the values tried for each of the two leading bytes
ByteInputs == {0, 1, 128, 255}

\* the hashes Valid is called on: the third byte takes every value
HashInputs ==
    {[b0 |-> x, b1 |-> y, b2 |-> z, in |-> <<>>] : x \in ByteInputs, y \in ByteInputs, z \in 0..255}

\* h.Valid()
HvCall ==
    /\ hv.pc = "idle"
    /\ \E h \in HashInputs : hv' = [pc |-> "done", h |-> h, valid |-> HashValid(h)]
    /\ UNCHANGED <<db, rt, mn, ks, pr, gs>>

\* the caller takes the answer
HvDone ==
    /\ hv.pc = "done"
    /\ hv' = HvIdle
    /\ UNCHANGED <<db, rt, mn, ks, pr, gs>>

HashNext == HvCall \/ HvDone

HashSpec == Init /\ [][HashNext]_vars

---------------------------------------------------------------------------
(* The key store: the tables keys and miner_address.  miner_address has   *)
(* no key, so its rows are kept in the order they were inserted.          *)

\* the private keys a wallet can hold or import
KeyInputs == Keys

\* the version parameter of POST /api/keys: any integer
VersionInputs == {V1, V2, 2}

\* addresses a client can post to /api/addresses/miner: those of the keys,
\* the empty address and an address of no key
NoKeyAddress == <<9, 9>>
AddressInputs ==
    {AddressFromKey(v, k) : v \in {V1, V2}, k \in KeyInputs} \cup {<<>>, NoKeyAddress}

DefaultVersion == V1

\* addKey: INSERT OR IGNORE INTO keys (address, private_key)
addKey(k_, a, k) ==
    IF \E r \in k_.keys : r.address = a THEN k_
    ELSE [k_ EXCEPT !.keys = @ \cup {[address |-> a, private_key |-> k]}]

\* migrate, the part on keys: a store without keys gets a fresh key and
\* that key's address as its miner address
migrateKeys(k_, k) ==
    IF k_.keys # {} THEN k_
    ELSE LET a == AddressFromKey(DefaultVersion, k)
         IN  [addKey(k_, a, k) EXCEPT !.miner_address = Append(@, a)]

\* DB.AddKey
AddKey(k_, version, k) == addKey(k_, AddressFromKey(version, k), k)

\* DB.SetMinerAddress: UPDATE miner_address SET address = ?
SetMinerAddress(k_, a) ==
    [k_ EXCEPT !.miner_address = [i \in 1..Len(@) |-> a]]

\* DB.MinerAddress: SELECT address FROM miner_address, the rows QueryRow can
\* scan; none is sql.ErrNoRows
MinerAddress(k_) == {k_.miner_address[i] : i \in 1..Len(k_.miner_address)}

\* OpenDB
KsOpenDB ==
    /\ ~ks.open
    /\ \E k \in KeyInputs : ks' = [migrateKeys(ks, k) EXCEPT !.open = TRUE]
    /\ UNCHANGED <<db, rt, hv, mn, pr, gs>>

\* DB.Close
KsClose ==
    /\ ks.open
    /\ ks' = [ks EXCEPT !.open = FALSE]
    /\ UNCHANGED <<db, rt, hv, mn, pr, gs>>

\* POST /api/keys
KsAddKey ==
    /\ ks.open
    /\ \E v \in VersionInputs, k \in KeyInputs : ks' = AddKey(ks, v, k)
    /\ UNCHANGED <<db, rt, hv, mn, pr, gs>>

\* POST /api/addresses/miner
KsSetMinerAddress ==
    /\ ks.open
    /\ \E a \in AddressInputs : ks' = SetMinerAddress(ks, a)
    /\ UNCHANGED <<db, rt, hv, mn, pr, gs>>

KeyNext == KsOpenDB \/ KsClose \/ KsAddKey \/ KsSetMinerAddress

KeySpec == Init /\ [][KeyNext]_vars

---------------------------------------------------------------------------
(* The miner (Server.mine): MaxSearchers searchers, one step per store    *)
(* call and per atomic load or add.  A searcher's record keeps its locals *)
(* and, for the properties, what it has read since the top of the loop    *)
(* (read), the value its last check loaded (lastLoad), whether that check *)
(* sent it back to the top (preempted) and whether it has inserted a      *)
(* block (inserted).                                                      *)

\* rejected candidates counted between two reports, in the model
MaxHashes == 1

\* blocks the searchers insert, in the model
MaxMined == 2

\* the block rewards a node can be started with: one within the limit, one
\* beyond it
BlockRewardInputs == {2, MaxBlockReward + 1}

\* transactions the wallet broadcasts while the miner runs
MinerTxInputs == {Sign(Tx(A1, A2, 1, 1), "k1", 1)}

\* a bump that leaves the counter as it is
BumpNot(v) == v

\* atomic.AddUint64(&s.bestBlockVersion, 1)
Bump(v) == (v + 1) % (MaxVersion + 1)

\* the searcher's record with one local or note changed
Searcher(i) == mn.s[i]

\* the model stops storing blocks at MaxMined blocks besides Genesis
Room(s) == Cardinality(s.blocks) <= MaxMined + 1

\* a check that never sends the searcher back to the top
AfterCheckNoRestart(m, cur) == [m EXCEPT !.pc = "new", !.lastLoad = cur, !.preempted = FALSE]

\* if version != atomic.LoadUint64(&s.bestBlockVersion) { continue newBestBlock }
AfterCheck(m, cur) ==
    IF m.version # cur
    THEN [SearcherAt("addr") EXCEPT !.preempted = TRUE, !.inserted = m.inserted]
    ELSE [m EXCEPT !.pc = "new", !.lastLoad = cur, !.preempted = FALSE]

\* NewServer: the block reward is the operator's
MnNewServer ==
    /\ mn = MnIdle
    /\ \E r \in BlockRewardInputs : mn' = [mn EXCEPT !.blockReward = r]
    /\ UNCHANGED <<db, rt, hv, ks, pr, gs>>

\* Serve: go s.mine()
MnMine(i) ==
    /\ mn.blockReward # 0 /\ ~mn.exited /\ ks.open
    /\ Searcher(i).pc = "off"
    /\ mn' = [mn EXCEPT !.s[i] = SearcherAt("addr")]
    /\ UNCHANGED <<db, rt, hv, ks, pr, gs>>

\* addr, err := s.db.MinerAddress()
MnMinerAddress(i) ==
    /\ ~mn.exited
    /\ Searcher(i).pc = "addr"
    /\ IF MinerAddress(ks) = {}
       THEN mn' = [mn EXCEPT !.exited = TRUE]
       ELSE \E a \in MinerAddress(ks) :
                mn' = [mn EXCEPT !.s[i].addr = a, !.s[i].read = @ \cup {"addr"},
                                 !.s[i].preempted = FALSE, !.s[i].pc = "version"]
    /\ UNCHANGED <<db, rt, hv, ks, pr, gs>>

\* version := atomic.LoadUint64(&s.bestBlockVersion)
MnLoadVersion(i) ==
    /\ ~mn.exited
    /\ Searcher(i).pc = "version"
    /\ mn' = [mn EXCEPT !.s[i].version = mn.bestBlockVersion,
                        !.s[i].read = @ \cup {"version"}, !.s[i].pc = "best"]
    /\ UNCHANGED <<db, rt, hv, ks, pr, gs>>

\* block, err := s.db.BestBlock()
MnBestBlock(i) ==
    /\ ~mn.exited
    /\ Searcher(i).pc = "best"
    /\ \E tip \in BestBlocks(db) :
        mn' = [mn EXCEPT !.s[i].block = BestBlock(db, tip),
                         !.s[i].read = @ \cup {"block"}, !.s[i].pc = "pending"]
    /\ UNCHANGED <<db, rt, hv, ks, pr, gs>>

\* stxs, err := s.db.PendingTxs(block.Hash, 10)
MnPendingTxs(i) ==
    /\ ~mn.exited
    /\ Searcher(i).pc = "pending"
    /\ \E rows \in Orders(PendingRows(db, Searcher(i).block.Hash)) :
        \E r \in {PendingTxs(db, Searcher(i).block.Hash, 10, rows)} :
            /\ db' = r.db
            /\ mn' = IF r.err # Nil THEN [mn EXCEPT !.exited = TRUE]
                     ELSE [mn EXCEPT !.s[i].stxs = r.stxs,
                                     !.s[i].read = @ \cup {"stxs"}, !.s[i].pc = "check"]
    /\ UNCHANGED <<rt, hv, ks, pr, gs>>

\* the check at the top of the search loop
MnCheck(i) ==
    /\ ~mn.exited
    /\ Searcher(i).pc = "check"
    /\ mn' = [mn EXCEPT !.s[i] = AfterCheck(@, mn.bestBlockVersion)]
    /\ UNCHANGED <<db, rt, hv, ks, pr, gs>>

\* next, err = NewBlock(block, rand.Int63(), addr, s.blockReward, stxs), and
\* the test of next.Hash.Valid(): a valid candidate leaves the loop, any
\* other is counted in hashesPerSec
Search(i, nonces) ==
    /\ ~mn.exited
    /\ Searcher(i).pc = "new"
    /\ \E n \in nonces :
        \E next \in {NewBlock(Searcher(i).block, n, Searcher(i).addr, mn.blockReward,
                               Searcher(i).stxs)} :
            IF HashValid(next.Hash)
            THEN mn' = [mn EXCEPT !.s[i].next = <<next>>, !.s[i].pc = "add"]
            ELSE /\ mn.hashesPerSec < MaxHashes
                 /\ mn' = [mn EXCEPT !.s[i].next = <<next>>, !.s[i].pc = "check",
                                     !.hashesPerSec = @ + 1]
    /\ UNCHANGED <<db, rt, hv, ks, pr, gs>>

MnNewBlock(i) == Search(i, Nonces)

\* if err := s.db.AddBlock(next); err != nil { log.Fatalf(...) }
MnAddBlock(i) ==
    /\ ~mn.exited
    /\ Searcher(i).pc = "add"
    /\ LET r == AddBlock(db, Searcher(i).next[1])
       IN  /\ Room(r.db)
           /\ db' = r.db
           /\ mn' = IF r.err # Nil THEN [mn EXCEPT !.exited = TRUE]
                    ELSE [mn EXCEPT !.s[i].inserted = TRUE, !.s[i].pc = "bump"]
    /\ UNCHANGED <<rt, hv, ks, pr, gs>>

\* atomic.AddUint64(&s.bestBlockVersion, 1) after the insert
MnBump(i) ==
    /\ ~mn.exited
    /\ Searcher(i).pc = "bump"
    /\ mn' = [mn EXCEPT !.bestBlockVersion = Bump(@), !.s[i].pc = "peers"]
    /\ UNCHANGED <<db, rt, hv, ks, pr, gs>>

\* peers, err := s.db.Peers(), the pushes in goroutines of their own, and
\* back to the top of the loop
MnPeers(i) ==
    /\ ~mn.exited
    /\ Searcher(i).pc = "peers"
    /\ mn' = [mn EXCEPT !.s[i] = [SearcherAt("addr") EXCEPT !.inserted = TRUE]]
    /\ UNCHANGED <<db, rt, hv, ks, pr, gs>>

\* printHashesPerSec: atomic.SwapUint64(&s.hashesPerSec, 0)
MnReport ==
    /\ ~mn.exited
    /\ mn.hashesPerSec > 0
    /\ mn' = [mn EXCEPT !.hashesPerSec = 0]
    /\ UNCHANGED <<db, rt, hv, ks, pr, gs>>

\* POST /api/txs while the miner runs: a transaction the store accepts
\* bumps bestBlockVersion
MnAddTx ==
    /\ ~mn.exited /\ mn.blockReward # 0
    /\ \E stx \in MinerTxInputs, tip \in BestBlocks(db) :
        LET r == AddTx(db, stx, tip)
        IN  /\ r.err = Nil
            /\ db' = r.db
            /\ mn' = [mn EXCEPT !.bestBlockVersion = Bump(@)]
    /\ UNCHANGED <<rt, hv, ks, pr, gs>>

\* a full sync that pulled an empty mempool from a peer: fetchTxs bumps
\* bestBlockVersion whatever it added
MnFetchTxs ==
    /\ ~mn.exited /\ mn.blockReward # 0
    /\ mn' = [mn EXCEPT !.bestBlockVersion = Bump(@)]
    /\ UNCHANGED <<db, rt, hv, ks, pr, gs>>

\* one step of searcher i
MnStep(i) ==
    \/ MnMine(i) \/ MnMinerAddress(i) \/ MnLoadVersion(i) \/ MnBestBlock(i)
    \/ MnPendingTxs(i) \/ MnCheck(i) \/ MnNewBlock(i) \/ MnAddBlock(i)
    \/ MnBump(i) \/ MnPeers(i)

MinerNext ==
    \/ KsOpenDB \/ MnNewServer \/ MnAddTx \/ MnFetchTxs \/ MnReport
    \/ \E i \in Searchers : MnStep(i)

MinerSpec == Init /\ [][MinerNext]_vars

\* The miner under a trivial proof-of-work target: Valid() is true of every
\* hash, which the model renders by letting rand.Int63() draw only nonces
\* whose candidate passes Valid().
PassingNonces(i) ==
    {n \in Nonces :
        HashValid(NewBlock(Searcher(i).block, n, Searcher(i).addr, mn.blockReward,
                           Searcher(i).stxs).Hash)}

MnNewBlockTrivial(i) == Search(i, PassingNonces(i))

TrivialStep(i) ==
    \/ MnMine(i) \/ MnMinerAddress(i) \/ MnLoadVersion(i) \/ MnBestBlock(i)
    \/ MnPendingTxs(i) \/ MnCheck(i) \/ MnNewBlockTrivial(i) \/ MnAddBlock(i)
    \/ MnBump(i) \/ MnPeers(i)

TrivialNext ==
    \/ KsOpenDB \/ MnNewServer \/ MnAddTx \/ MnFetchTxs
    \/ \E i \in Searchers : TrivialStep(i)

\* the Go scheduler runs every searcher that can take a step
TrivialMineSpec ==
    Init /\ [][TrivialNext]_vars /\ \A i \in Searchers : WF_vars(TrivialStep(i))

---------------------------------------------------------------------------
(* The peer set (server.go, db.go): the peers table and the goroutines    *)
(* that add to it and remove from it.  A peer address is a string, here   *)
(* the sequence of its characters.                                        *)

\* entries of a peer list pulled in one sync, in the model
MaxList == 2

\* unicode.ToLower on the characters the addresses are made of
LowerChar(c) ==
    CASE c = "N" -> "n"
      [] c = "P" -> "p"
      [] c = "Q" -> "q"
      [] OTHER -> c

\* strings.ToLower
ToLower(str) == [i \in 1..Len(str) |-> LowerChar(str[i])]

\* the external address the node is started with
ExtAddrInputs == {<<"N", "1">>, <<"n", "1">>}

\* the addresses peers and clients name, in either case; two of them are
\* the node's own
PeerInputs ==
    {<<"N", "1">>, <<"n", "1">>, <<"P", "1">>, <<"p", "1">>, <<"Q", "1">>}

\* the well-known peers the node is started with
WellKnownInputs == {{}, {<<"P", "1">>}, {<<"P", "1">>, <<"N", "1">>}}

\* the peer lists a pull can bring
PeerLists == SeqsUpTo(PeerInputs, MaxList)

\* createWellKnownPeers
createWellKnownPeers(peers) == {ToLower(p) : p \in peers}

\* DB.PeerExists: SELECT 1 FROM peers WHERE peer = ?
PeerExists(peers, peer) == peer \in peers

\* DB.AddPeer with INSERT OR REPLACE: a row is always affected
AddPeerReplace(peers, peer) == [peers |-> peers \cup {peer}, created |-> TRUE]

\* DB.AddPeer: INSERT OR IGNORE INTO peers (peer), created when a row was
\* affected
AddPeer(peers, peer) == [peers |-> peers \cup {peer}, created |-> peer \notin peers]

\* DB.RemovePeer: DELETE FROM peers WHERE peer = ?
RemovePeer(peers, peer) == peers \ {peer}

\* go func() { ... }(): the goroutine takes the first free slot
Spawn(tasks, pc, peer) ==
    LET free == {t \in Tasks : tasks[t].pc = "free"}
        t == CHOOSE x \in free : \A y \in free : x <= y
    IN  [tasks EXCEPT ![t] = [pc |-> pc, peer |-> peer]]

\* validateAndAddPeer that takes the string as it comes
validateAsGiven(p, peer) ==
    LET q == [p EXCEPT !.seen = peer]
    IN  IF peer = p.extAddr THEN q
        ELSE IF PeerExists(p.peers, peer) THEN q
        ELSE [q EXCEPT !.tasks = Spawn(@, "ping", peer)]

\* validateAndAddPeer up to the go statement: the lowered string, the
\* comparison with the node's own address, the lookup, the goroutine
validateAndAddPeer(p, peer) ==
    LET q == [p EXCEPT !.seen = peer]
        low == ToLower(peer)
    IN  IF low = p.extAddr THEN q
        ELSE IF PeerExists(p.peers, low) THEN q
        ELSE [q EXCEPT !.tasks = Spawn(@, "ping", low)]

\* for _, peer := range peers { validateAndAddPeer(peer) }
RECURSIVE validateAll(_, _, _)
validateAll(p, list, i) ==
    IF i > Len(list) THEN p ELSE validateAll(validateAndAddPeer(p, list[i]), list, i + 1)

\* free slots left after the calls of validateAll
FreeSlots(p) == Cardinality({t \in Tasks : p.tasks[t].pc = "free"})

\* NewServer
PrNewServer ==
    /\ ~pr.up
    /\ \E ext \in ExtAddrInputs, wk \in WellKnownInputs :
        pr' = [pr EXCEPT !.up = TRUE, !.extAddr = ToLower(ext), !.client = ext,
                         !.wellKnownPeers = createWellKnownPeers(wk)]
    /\ UNCHANGED <<db, rt, hv, mn, ks, gs>>

\* Serve: for peer := range s.wellKnownPeers { validateAndAddPeer(peer) }
PrServe ==
    /\ pr.up /\ ~pr.served
    /\ \E order \in Orders(pr.wellKnownPeers) :
        /\ Len(order) <= FreeSlots(pr)
        /\ pr' = [validateAll(pr, order, 1) EXCEPT !.served = TRUE]
    /\ UNCHANGED <<db, rt, hv, mn, ks, gs>>

\* POST /api/peers
PrAddPeer ==
    /\ pr.served
    /\ FreeSlots(pr) >= 1
    /\ \E peer \in PeerInputs : pr' = validateAndAddPeer(pr, peer)
    /\ UNCHANGED <<db, rt, hv, mn, ks, gs>>

\* the goroutine of validateAndAddPeer: s.client.Ping(peer)
PrPing(t) ==
    /\ pr.tasks[t].pc = "ping"
    /\ \E ok \in BOOLEAN :
        pr' = [pr EXCEPT !.tasks[t] = IF ok THEN [@ EXCEPT !.pc = "add"] ELSE NoTask]
    /\ UNCHANGED <<db, rt, hv, mn, ks, gs>>

\* created, err := s.db.AddPeer(peer); if !created { return }
PrAdd(t) ==
    /\ pr.tasks[t].pc = "add"
    /\ LET r == AddPeer(pr.peers, pr.tasks[t].peer)
       IN  pr' = [pr EXCEPT !.peers = r.peers,
                            !.tasks[t] = IF r.created THEN [@ EXCEPT !.pc = "sync"]
                                         ELSE NoTask]
    /\ UNCHANGED <<db, rt, hv, mn, ks, gs>>

\* fullPeerSync up to fetchPeers: the announcement of the node itself, the
\* pull of the peer's list and validateAndAddPeer on each entry; the
\* announcement or the pull can fail
SyncFrom(t, lists) ==
    /\ pr.tasks[t].pc = "sync"
    /\ \/ pr' = [pr EXCEPT !.tasks[t] = NoTask]
       \/ \E list \in lists :
            LET p == [pr EXCEPT !.tasks[t] = NoTask]
            IN  /\ Len(list) <= FreeSlots(p)
                /\ pr' = validateAll(p, list, 1)
    /\ UNCHANGED <<db, rt, hv, mn, ks, gs>>

\* fullPeerSync with a peer that can name any address
PrSync(t) == SyncFrom(t, PeerLists)

\* periodicFullPeerSync: a tick, peers, err := s.db.Peers()
PrTick ==
    /\ pr.served
    /\ pr.snapshot = {} /\ pr.peers # {}
    /\ pr' = [pr EXCEPT !.snapshot = pr.peers]
    /\ UNCHANGED <<db, rt, hv, mn, ks, gs>>

\* for _, peer := range peers { go func() { ... }() }
PrMaintain ==
    /\ FreeSlots(pr) >= 1
    /\ \E peer \in pr.snapshot :
        pr' = [pr EXCEPT !.snapshot = @ \ {peer}, !.tasks = Spawn(@, "maintain", peer)]
    /\ UNCHANGED <<db, rt, hv, mn, ks, gs>>

\* a maintenance ping that removes whatever peer does not answer
AfterPingRemoveAny(peers, wellKnown, ok, peer) ==
    IF ~ok THEN RemovePeer(peers, peer) ELSE peers

\* if err := s.client.Ping(peer); err != nil && !wellKnown { RemovePeer }
AfterPing(peers, wellKnown, ok, peer) ==
    IF ~ok /\ ~wellKnown THEN RemovePeer(peers, peer) ELSE peers

\* the goroutine of the maintenance: the ping, the removal, then the sync
PrMaintainPing(t) ==
    /\ pr.tasks[t].pc = "maintain"
    /\ \E ok \in BOOLEAN :
        LET peer == pr.tasks[t].peer
            wellKnown == peer \in pr.wellKnownPeers
            after == AfterPing(pr.peers, wellKnown, ok, peer)
        IN  pr' = [pr EXCEPT !.peers = after,
                             !.tasks[t].pc = "sync",
                             !.pinged = [peer |-> peer, ok |-> ok,
                                         wellKnown |-> wellKnown,
                                         before |-> peer \in pr.peers,
                                         after |-> peer \in after]]
    /\ UNCHANGED <<db, rt, hv, mn, ks, gs>>

PeerNext ==
    \/ PrNewServer \/ PrServe \/ PrAddPeer \/ PrTick \/ PrMaintain
    \/ \E t \in Tasks : PrPing(t) \/ PrAdd(t) \/ PrSync(t) \/ PrMaintainPing(t)

PeerSpec == Init /\ [][PeerNext]_vars

---------------------------------------------------------------------------
(* The peers table beside a network whose nodes come and go: a PING is    *)
(* answered exactly by the nodes that are up when it is sent.             *)

\* the nodes of the network besides this one
Remote == {<<"p", "1">>, <<"q", "1">>}

\* a remote node starts to answer
BtUp ==
    /\ \E peer \in Remote \ pr.reach : pr' = [pr EXCEPT !.reach = @ \cup {peer}]
    /\ UNCHANGED <<db, rt, hv, mn, ks, gs>>

\* a remote node stops answering
BtDown ==
    /\ \E peer \in pr.reach : pr' = [pr EXCEPT !.reach = @ \ {peer}]
    /\ UNCHANGED <<db, rt, hv, mn, ks, gs>>

\* POST /api/peers by a node that announces itself
BtAnnounce ==
    /\ pr.served
    /\ FreeSlots(pr) >= 1
    /\ pr' = validateAndAddPeer(pr, <<"Q", "1">>)
    /\ UNCHANGED <<db, rt, hv, mn, ks, gs>>

\* the goroutine of validateAndAddPeer: s.client.Ping(peer) against the
\* network
BtPing(t) ==
    /\ PrPing(t)
    /\ (pr'.tasks[t].pc = "add") = (pr.tasks[t].peer \in pr.reach)

\* the goroutine of the maintenance: the ping against the network
BtMaintainPing(t) ==
    /\ PrMaintainPing(t)
    /\ pr'.pinged.ok = (pr.tasks[t].peer \in pr.reach)

\* fullPeerSync with a peer that knows nobody, or only the node that
\* announces itself, or that does not answer
BtSync(t) == SyncFrom(t, {<<>>, <<<<"Q", "1">>>>})

\* the goroutines run, the ticker fires, Serve is called after NewServer;
\* whether and when a node comes up, goes down or announces itself is left
\* to the network
BootNext ==
    \/ PrNewServer \/ PrServe \/ PrTick \/ PrMaintain
    \/ BtUp \/ BtDown \/ BtAnnounce
    \/ \E t \in Tasks : BtPing(t) \/ PrAdd(t) \/ BtSync(t) \/ BtMaintainPing(t)

BootSpec ==
    /\ Init /\ [][BootNext]_vars
    /\ WF_vars(PrServe) /\ WF_vars(PrTick) /\ WF_vars(PrMaintain)
    /\ \A t \in Tasks :
        /\ WF_vars(BtPing(t)) /\ WF_vars(PrAdd(t))
        /\ WF_vars(BtSync(t)) /\ WF_vars(BtMaintainPing(t))

---------------------------------------------------------------------------
(* The gossip handlers (server.go): pushed blocks and transactions, the   *)
(* pull of a peer's chain and of its mempool, the full sync.              *)

\* http.StatusOK, the status of a handler that writes no error
StatusOK == 200

\* http.StatusInternalServerError
StatusInternalServerError == 500

\* errors.Wrap: the cause sits inside a value of another type
Wrap(err, message) == [kind |-> "withStack", msg |-> message, cause |-> err]

\* what a client call to a peer fails with
NetError == [kind |-> "error", msg |-> "cryptopuff: GET failed"]

\* TransactWithRetry out of tries: the store was busy
StoreError == TxError(SqliteError("ErrBusy"), DefaultTries)

\* the X-Peer header of a request
XPeerInputs == {<<"p", "1">>, <<"q", "1">>}

\* pushed blocks: a block on a stored block, one with a reward over the
\* maximum, and one whose parent is not stored
PushedBlocks(s) ==
    {Mined(p.Hash, p.Height + 1, A1, 2, <<>>) : p \in StoredBlocks(s)}
    \cup {Mined(GenesisBlock.Hash, 1, A1, MaxBlockReward + 1, <<>>),
          Mined(Stranger.Hash, 2, A1, 2, <<>>)}

\* pushed and pulled transactions: a spend of A1, a transfer of nothing, a
\* replayed signature
GossipTxs ==
    { Sign(Tx(A1, A2, 1, 1), "k1", 1),
      Sign(Tx(A1, A2, 0, 1), "k1", 1),
      Sign(Tx(A2, A1, 1, 0), "k1", 1) }

\* the chains a peer answers GET /api/blocks with, tip first: one block on
\* a stored block, with and without that block, and a block on the stranger
GossipChains(s) ==
    UNION {UNION {{<<b, p>>, <<b>>} : b \in StackOn(p)} : p \in StoredBlocks(s)}
    \cup {<<Mined(Stranger.Hash, 2, A1, 2, <<>>), Stranger>>}

\* the mempools a peer answers GET /api/txs with
MempoolInputs == SeqsUpTo(GossipTxs, MaxTxs)

\* POST /api/blocks that answers an unknown parent as any other error
addBlockReplySurfaced(err, peer) ==
    IF err # Nil THEN [status |-> StatusInternalServerError, bump |-> FALSE, pull |-> {}]
    ELSE [status |-> StatusOK, bump |-> TRUE, pull |-> {}]

\* POST /api/blocks after s.db.AddBlock: the status written, whether
\* bestBlockVersion is bumped, the peers a goroutine is started to pull from
addBlockReply(err, peer) ==
    IF err = ErrUnknownParent THEN [status |-> StatusOK, bump |-> FALSE, pull |-> {peer}]
    ELSE IF err # Nil THEN [status |-> StatusInternalServerError, bump |-> FALSE, pull |-> {}]
    ELSE [status |-> StatusOK, bump |-> TRUE, pull |-> {}]

\* a node that pushes nothing on
pushTargetsNone(handler, err, peers) == {}

\* the peers an accepted artifact is pushed to: mine and POST
\* /api/txs/broadcast read s.db.Peers() and start one push per peer; POST
\* /api/blocks, POST /api/txs, fetchBlocks and fetchTxs push nothing
pushTargets(handler, err, peers) ==
    IF handler \in {"mine", "broadcastTx"} /\ err = Nil THEN peers ELSE {}

\* POST /api/txs and POST /api/txs/broadcast after s.db.AddTx
addTxReply(err) ==
    IF err # Nil THEN [status |-> StatusInternalServerError, bump |-> FALSE]
    ELSE [status |-> StatusOK, bump |-> TRUE]

\* fetchBlocks: the download, AddBlocks, the bump; added is what
\* s.db.AddBlocks(blocks) answers
fetchBlocks(s, fetched, added) ==
    IF ~fetched
    THEN [db |-> s, err |-> Wrap(NetError, "cryptopuff: failed to download blocks"),
          applied |-> FALSE, bump |-> FALSE]
    ELSE IF added.err # Nil
    THEN [db |-> s, err |-> Wrap(added.err, "cryptopuff: failed to add blocks to database"),
          applied |-> TRUE, bump |-> FALSE]
    ELSE [db |-> added.db, err |-> Nil, applied |-> TRUE, bump |-> TRUE]

\* the loop of fetchTxs that returns at the first error of any type
RECURSIVE feedTxsStrict(_, _, _, _, _, _)
feedTxsStrict(s, stxs, tips, fault, i, calls) ==
    IF i > Len(stxs) THEN [db |-> s, err |-> Nil, calls |-> calls]
    ELSE LET r == IF i = fault THEN [db |-> s, err |-> StoreError]
                  ELSE AddTx(s, stxs[i], tips[i])
             c == Append(calls, [stx |-> stxs[i], err |-> r.err])
         IN  IF r.err # Nil
             THEN [db |-> s, calls |-> c,
                   err |-> Wrap(r.err, "cryptopuff: failed to add transaction to the database")]
             ELSE feedTxsStrict(r.db, stxs, tips, fault, i + 1, c)

\* for _, stx := range stxs { s.db.AddTx(&stx) ... }: tips[i] is the tip row
\* the store picks in call i, fault the call in which the store is busy (0
\* for none), calls the calls made so far with what they answered
RECURSIVE feedTxs(_, _, _, _, _, _)
feedTxs(s, stxs, tips, fault, i, calls) ==
    IF i > Len(stxs) THEN [db |-> s, err |-> Nil, calls |-> calls]
    ELSE LET r == IF i = fault THEN [db |-> s, err |-> StoreError]
                  ELSE AddTx(s, stxs[i], tips[i])
             c == Append(calls, [stx |-> stxs[i], err |-> r.err])
         IN  IF IsInvalidBlockError(r.err) THEN feedTxs(s, stxs, tips, fault, i + 1, c)
             ELSE IF r.err # Nil
             THEN [db |-> s, calls |-> c,
                   err |-> Wrap(r.err, "cryptopuff: failed to add transaction to the database")]
             ELSE feedTxs(r.db, stxs, tips, fault, i + 1, c)

\* fetchTxs after the download: the loop, then the bump
fetchTxs(s, stxs, tips, fault) ==
    LET r == feedTxs(s, stxs, tips, fault, 1, <<>>)
    IN  [db |-> r.db, err |-> r.err, calls |-> r.calls, bump |-> r.err = Nil]

\* blocks besides Genesis the handlers store, in the model
MaxGossipBlocks == 1

GossipRoom(s) == Cardinality(s.blocks) <= MaxGossipBlocks + 1

\* atomic.AddUint64(&s.bestBlockVersion, 1), where the handler reaches it
GsBump(bump) == [mn EXCEPT !.bestBlockVersion = IF bump THEN Bump(@) ELSE @]

\* POST /api/blocks
GsAddBlock ==
    \E b \in PushedBlocks(db), peer \in XPeerInputs :
        \E r \in {AddBlock(db, BlockUpdateHash(b))} :
            \E a \in {addBlockReply(r.err, peer)} :
                /\ GossipRoom(r.db)
                /\ db' = r.db
                /\ mn' = GsBump(a.bump)
                /\ gs' = [gs EXCEPT !.pulls = @ \cup a.pull,
                                    !.last = [handler |-> "addBlock", err |-> r.err,
                                              status |-> a.status, bump |-> a.bump,
                                              pull |-> a.pull, peer |-> peer,
                                              accepted |-> r.db # db,
                                              pushes |-> pushTargets("addBlock", r.err, pr.peers)]]
                /\ UNCHANGED <<rt, hv, ks, pr>>

\* the goroutine of POST /api/blocks: fetchBlocks(peer)
GsPull ==
    \E peer \in gs.pulls, fetched \in BOOLEAN :
        \E chain \in IF fetched THEN GossipChains(db) ELSE {<<>>} :
            \E added \in {AddBlocks(db, chain)} :
                \E r \in {fetchBlocks(db, fetched, added)} :
                    /\ GossipRoom(r.db)
                    /\ db' = r.db
                    /\ mn' = GsBump(r.bump)
                    /\ gs' = [gs EXCEPT !.pulls = @ \ {peer},
                                        !.last = [handler |-> "pull", peer |-> peer,
                                                  err |-> r.err, applied |-> r.applied,
                                                  bump |-> r.bump, added |-> added.err,
                                                  accepted |-> r.db # db,
                                                  pushes |-> pushTargets("fetchBlocks", r.err, pr.peers)]]
                    /\ UNCHANGED <<rt, hv, ks, pr>>

\* POST /api/txs and POST /api/txs/broadcast
GsAddTx ==
    \E handler \in {"addTx", "broadcastTx"}, stx \in GossipTxs, tip \in BestBlocks(db) :
        \E r \in {AddTx(db, SignedTxUpdateHash(stx), tip)} :
            \E a \in {addTxReply(r.err)} :
                /\ db' = r.db
                /\ mn' = GsBump(a.bump)
                /\ gs' = [gs EXCEPT !.last = [handler |-> handler, err |-> r.err,
                                              status |-> a.status, bump |-> a.bump,
                                              accepted |-> r.db # db,
                                              pushes |-> pushTargets(handler, r.err, pr.peers)]]
                /\ UNCHANGED <<rt, hv, ks, pr>>

\* fullPeerSync up to fetchPeers: the announcement and the pull of the peers
GsFullPeerSync ==
    /\ gs.sync = "idle"
    /\ \E ok \in BOOLEAN :
        gs' = [gs EXCEPT !.sync = IF ok THEN "blocks" ELSE "idle",
                         !.last = [handler |-> "fetchPeers", accepted |-> FALSE, pushes |-> {},
                                   err |-> IF ok THEN Nil ELSE NetError]]
    /\ UNCHANGED <<db, rt, hv, mn, ks, pr>>

\* fullPeerSync: if err := s.fetchBlocks(peer); err != nil { return ... }
GsFetchBlocks ==
    /\ gs.sync = "blocks"
    /\ \E fetched \in BOOLEAN :
        \E chain \in IF fetched THEN GossipChains(db) ELSE {<<>>} :
            \E added \in {AddBlocks(db, chain)} :
                \E r \in {fetchBlocks(db, fetched, added)} :
                    /\ GossipRoom(r.db)
                    /\ db' = r.db
                    /\ mn' = GsBump(r.bump)
                    /\ gs' = [gs EXCEPT !.sync = IF r.err = Nil THEN "txs" ELSE "idle",
                                        !.last = [handler |-> "fetchBlocks", err |-> r.err,
                                                  applied |-> r.applied, bump |-> r.bump,
                                                  added |-> added.err,
                                                  accepted |-> r.db # db,
                                                  pushes |-> pushTargets("fetchBlocks", r.err, pr.peers)]]
    /\ UNCHANGED <<rt, hv, ks, pr>>

\* fullPeerSync: s.fetchTxs(peer), the last step of the sync
GsFetchTxs ==
    /\ gs.sync = "txs"
    /\ \/ /\ gs' = [gs EXCEPT !.sync = "idle",
                              !.last = [handler |-> "fetchTxs", stxs |-> <<>>, calls |-> <<>>,
                                        err |-> Wrap(NetError, "cryptopuff: failed to download transactions"),
                                        bump |-> FALSE, accepted |-> FALSE, pushes |-> {}]]
          /\ UNCHANGED <<db, mn>>
       \/ \E stxs \in MempoolInputs :
            \E tips \in [1..Len(stxs) -> BestBlocks(db)], fault \in 0..Len(stxs) :
                \E r \in {fetchTxs(db, UpdateHashes(stxs), tips, fault)} :
                    /\ db' = r.db
                    /\ mn' = GsBump(r.bump)
                    /\ gs' = [gs EXCEPT !.sync = "idle",
                                        !.last = [handler |-> "fetchTxs", stxs |-> stxs,
                                                  calls |-> r.calls, err |-> r.err,
                                                  bump |-> r.bump,
                                                  accepted |-> r.db # db,
                                                  pushes |-> pushTargets("fetchTxs", r.err, pr.peers)]]
    /\ UNCHANGED <<rt, hv, ks, pr>>

\* the blocks a miner finds: a mined block on the best block
FoundBlocks(s) ==
    {Mined(DecodeBlock(r.block).Hash, r.height + 1, A2, 2, <<>>) : r \in BestBlocks(s)}

\* mine, from the insert of the block it found: AddBlock, the bump,
\* s.db.Peers() and one push per peer
GsMine ==
    \E b \in FoundBlocks(db) :
        \E r \in {AddBlock(db, b)} :
            /\ r.err = Nil
            /\ GossipRoom(r.db)
            /\ db' = r.db
            /\ mn' = GsBump(TRUE)
            /\ gs' = [gs EXCEPT !.last = [handler |-> "mine", err |-> r.err, bump |-> TRUE,
                                          accepted |-> r.db # db,
                                          pushes |-> pushTargets("mine", r.err, pr.peers)]]
            /\ UNCHANGED <<rt, hv, ks, pr>>

\* the goroutine of validateAndAddPeer stores a peer that answered its ping
GsAddPeer ==
    /\ \E peer \in XPeerInputs : pr' = [pr EXCEPT !.peers = AddPeer(@, peer).peers]
    /\ UNCHANGED <<db, rt, hv, mn, ks, gs>>

GossipNext ==
    \/ GsAddBlock \/ GsPull \/ GsAddTx \/ GsFullPeerSync \/ GsFetchBlocks \/ GsFetchTxs
    \/ GsMine \/ GsAddPeer

GossipSpec == Init /\ [][GossipNext]_vars

---------------------------------------------------------------------------
(* The miner beside the handlers (server.go).                             *)

\* The miner beside the handlers and pulls that store blocks.  The model
\* stops storing when bestBlockVersion is MaxVersion once every bump ahead
\* is made, so that the counter of the model never wraps as a uint64 does
\* after 2^64 bumps.
PendingBumps == Cardinality({i \in Searchers : Searcher(i).pc = "bump"}) + mn.owed

BumpRoom == mn.bestBlockVersion + PendingBumps < MaxVersion

\* POST /api/blocks up to s.db.AddBlock(&b): a block the store accepts has
\* its bump ahead
MnPushedBlock ==
    /\ ~mn.exited /\ mn.blockReward # 0 /\ BumpRoom
    /\ \E b \in FoundBlocks(db) :
        \E r \in {AddBlock(db, b)} :
            /\ r.err = Nil
            /\ Room(r.db)
            /\ db' = r.db
            /\ mn' = [mn EXCEPT !.owed = @ + 1]
    /\ UNCHANGED <<rt, hv, ks, pr, gs>>

\* fetchBlocks up to s.db.AddBlocks(blocks), in a sync or after an unknown
\* parent: a list the store applies has its bump ahead
MnPulledBlocks ==
    /\ ~mn.exited /\ mn.blockReward # 0 /\ BumpRoom
    /\ \E b \in FoundBlocks(db) :
        \E r \in {AddBlocks(db, <<b, GenesisBlock>>)} :
            /\ r.err = Nil
            /\ Room(r.db)
            /\ db' = r.db
            /\ mn' = [mn EXCEPT !.owed = @ + 1]
    /\ UNCHANGED <<rt, hv, ks, pr, gs>>

\* atomic.AddUint64(&s.bestBlockVersion, 1) at the end of addBlock and of
\* fetchBlocks
MnHandlerBump ==
    /\ ~mn.exited /\ mn.owed > 0
    /\ mn' = [mn EXCEPT !.bestBlockVersion = Bump(@), !.owed = @ - 1]
    /\ UNCHANGED <<db, rt, hv, ks, pr, gs>>

\* the draws of rand.Int63() in the model of the search: one nonce whose
\* candidate passes Valid(), where there is one, and one whose candidate
\* does not
\* the least element of a set of nonces, as a set of at most one
Least(S) == {n \in S : \A x \in S : n <= x}

TwoNonces(i) ==
    UNION {Least(passing) \cup Least(Nonces \ passing) : passing \in {PassingNonces(i)}}

MnNewBlockTwo(i) == Search(i, TwoNonces(i))

\* POST /api/txs while the counter has room
MnAddTxRoom == BumpRoom /\ MnAddTx

\* a searcher's insert while the counter has room
MnAddBlockRoom(i) == BumpRoom /\ MnAddBlock(i)

PreemptStep(i) ==
    \/ MnMine(i) \/ MnMinerAddress(i) \/ MnLoadVersion(i) \/ MnBestBlock(i)
    \/ MnPendingTxs(i) \/ MnCheck(i) \/ MnNewBlockTwo(i) \/ MnAddBlockRoom(i)
    \/ MnBump(i) \/ MnPeers(i)

\* the steps of the search loop and of the insert that follows it
LoopStep(i) == MnCheck(i) \/ MnNewBlockTwo(i) \/ MnAddBlockRoom(i) \/ MnBump(i)

\* the node once OpenDB has made its first key and NewServer has taken a
\* block reward a block can carry
PreemptInit ==
    /\ db = EmptyDB /\ rt = RtIdle /\ hv = HvIdle /\ pr = PrIdle /\ gs = GsIdle
    /\ ks = [migrateKeys(KsClosed, "k1") EXCEPT !.open = TRUE]
    /\ mn = [MnIdle EXCEPT !.blockReward = 2]

PreemptNext ==
    \/ MnAddTxRoom \/ MnReport
    \/ MnPushedBlock \/ MnPulledBlocks \/ MnHandlerBump
    \/ \E i \in Searchers : PreemptStep(i)

\* the Go scheduler runs every goroutine that can take a step; the
\* specification asks it only of the search loops, the reporter and the
\* handlers on their way to the bump
PreemptSpec ==
    /\ PreemptInit /\ [][PreemptNext]_vars
    /\ \A i \in Searchers : WF_vars(LoopStep(i))
    /\ WF_vars(MnReport)
    /\ WF_vars(MnHandlerBump)

\* The searchers beside the wallet's transactions and the peers' blocks,
\* with the counter free to wrap: every interleaving of the store calls of
\* mine() with AddTx and AddBlock of the handlers.
RaceStep(i) ==
    \/ MnMine(i) \/ MnMinerAddress(i) \/ MnLoadVersion(i) \/ MnBestBlock(i)
    \/ MnPendingTxs(i) \/ MnCheck(i) \/ MnNewBlockTrivial(i) \/ MnAddBlock(i)
    \/ MnBump(i) \/ MnPeers(i)

RaceNext ==
    \/ MnAddTx \/ MnPushedBlock \/ MnHandlerBump
    \/ \E i \in Searchers : RaceStep(i)

RaceSpec == PreemptInit /\ [][RaceNext]_vars

---------------------------------------------------------------------------
(* Store calls on the peers table under TransactWithRetry (db.go): each   *)
(* caller runs DB.AddPeer or DB.Peers, one step per d.Transact(f).  The   *)
(* variables the closure captures, created and peers, live across the     *)
(* attempts of one call.  inserted and read keep what the committed       *)
(* attempt did.                                                            *)

Callers == 1..2

\* no store call under way
CallIdle ==
    [op |-> "none", peer |-> <<>>, pc |-> "idle", tries |-> DefaultTries, i |-> 0,
     err |-> Nil, ret |-> Nil, created |-> FALSE, peers |-> {}, inserted |-> FALSE,
     read |-> {}, pinged |-> FALSE, followed |-> FALSE, notified |-> {}]

\* how an attempt can end: the closure ran and Commit succeeded, a
\* statement of the closure found the database busy, Commit found it busy
Outcomes == {"committed", "busy in f", "busy in Commit"}

\* the closure of DB.AddPeer over the committed table: INSERT OR IGNORE,
\* and created = true when a row was affected
addPeerClosure(c, table, outcome) ==
    IF outcome = "busy in f" THEN [c EXCEPT !.err = SqliteError("ErrBusy")]
    ELSE [c EXCEPT !.created = IF c.peer \notin table THEN TRUE ELSE @,
                   !.inserted = c.peer \notin table,
                   !.err = IF outcome = "committed" THEN Nil ELSE SqliteError("ErrBusy")]

\* the closure of DB.Peers: peers = nil, then one append for each row; a
\* busy database ends the loop after the rows of part
peersClosure(c, table, outcome, part) ==
    IF outcome = "busy in f" THEN [c EXCEPT !.peers = part, !.err = SqliteError("ErrBusy")]
    ELSE [c EXCEPT !.peers = table, !.read = table,
                   !.err = IF outcome = "committed" THEN Nil ELSE SqliteError("ErrBusy")]

\* the loop of TransactWithRetry from the return of d.Transact(f) to the
\* next attempt or to the return
NextTry(c) ==
    LET a == AfterAttempt(c)
    IN  IF a.pc = "sleep" THEN [a EXCEPT !.pc = "begin", !.i = @ + 1]
        ELSE IF a.pc = "loop" THEN [a EXCEPT !.pc = "done", !.ret = TxError(c.err, c.tries)]
        ELSE a

\* the node with its store open and no call under way
CallInit ==
    /\ db = EmptyDB /\ hv = HvIdle /\ mn = MnIdle /\ ks = KsClosed /\ pr = PrIdle
    /\ gs = GsIdle
    /\ rt = [k \in Callers |-> CallIdle]

\* DB.AddPeer(peer): var created bool
ScAddPeer(k) ==
    /\ rt[k].pc = "idle"
    /\ \E peer \in XPeerInputs :
        rt' = [rt EXCEPT ![k] = [CallIdle EXCEPT !.op = "AddPeer", !.peer = peer,
                                                  !.pc = "begin"]]
    /\ UNCHANGED <<db, hv, mn, ks, pr, gs>>

\* DB.Peers(): var peers []string
ScPeers(k) ==
    /\ rt[k].pc = "idle"
    /\ rt' = [rt EXCEPT ![k] = [CallIdle EXCEPT !.op = "Peers", !.pc = "begin"]]
    /\ UNCHANGED <<db, hv, mn, ks, pr, gs>>

\* one d.Transact(f) of DB.AddPeer
ScAddPeerAttempt(k) ==
    /\ rt[k].pc = "begin" /\ rt[k].op = "AddPeer"
    /\ \E outcome \in Outcomes :
        \E c \in {addPeerClosure(rt[k], pr.peers, outcome)} :
            /\ rt' = [rt EXCEPT ![k] = NextTry(c)]
            /\ pr' = IF c.err = Nil THEN [pr EXCEPT !.peers = @ \cup {c.peer}] ELSE pr
    /\ UNCHANGED <<db, hv, mn, ks, gs>>

\* one d.Transact(f) of DB.Peers
ScPeersAttempt(k) ==
    /\ rt[k].pc = "begin" /\ rt[k].op = "Peers"
    /\ \E outcome \in Outcomes : \E part \in SUBSET pr.peers :
        rt' = [rt EXCEPT ![k] = NextTry(peersClosure(rt[k], pr.peers, outcome, part))]
    /\ UNCHANGED <<db, hv, mn, ks, pr, gs>>

\* what DB.AddPeer returns: (false, err) or (created, nil)
AddPeerReturn(c) == IF c.ret # Nil THEN FALSE ELSE c.created

\* what DB.Peers returns: (nil, err) or (peers, nil)
PeersReturn(c) == IF c.ret # Nil THEN {} ELSE c.peers

\* the caller has taken the answer
ScReturn(k) ==
    /\ rt[k].pc = "done"
    /\ rt' = [rt EXCEPT ![k] = CallIdle]
    /\ UNCHANGED <<db, hv, mn, ks, pr, gs>>

StoreCallNext ==
    \E k \in Callers :
        ScAddPeer(k) \/ ScPeers(k) \/ ScAddPeerAttempt(k) \/ ScPeersAttempt(k) \/ ScReturn(k)

StoreCallSpec == CallInit /\ [][StoreCallNext]_vars

---------------------------------------------------------------------------
(* Discovery over the store calls (server.go): the goroutines of          *)
(* validateAndAddPeer, with DB.AddPeer under TransactWithRetry.  pinged,  *)
(* followed and notified keep what the goroutine did.                     *)

\* validateAndAddPeer(peer) up to `go func()`
DvValidate(k) ==
    /\ rt[k].pc = "idle"
    /\ \E peer \in XPeerInputs :
        /\ ToLower(peer) # pr.extAddr
        /\ ~PeerExists(pr.peers, ToLower(peer))
        /\ rt' = [rt EXCEPT ![k] = [CallIdle EXCEPT !.op = "AddPeer",
                                                  !.peer = ToLower(peer), !.pc = "ping"]]
    /\ UNCHANGED <<db, hv, mn, ks, pr, gs>>

\* if err := s.client.Ping(peer); err != nil { return }
DvPing(k) ==
    /\ rt[k].pc = "ping"
    /\ \E ok \in BOOLEAN :
        rt' = [rt EXCEPT ![k] = IF ok THEN [@ EXCEPT !.pinged = TRUE, !.pc = "begin"]
                                 ELSE CallIdle]
    /\ UNCHANGED <<db, hv, mn, ks, pr, gs>>

\* from the return of s.db.AddPeer(peer): the two early returns, or
\* s.db.Peers(), the notification of every p != peer and fullPeerSync(peer)
DvFollowUp(k) ==
    /\ rt[k].pc = "done" /\ rt[k].op = "AddPeer"
    /\ rt' = [rt EXCEPT ![k] =
                IF rt[k].ret # Nil \/ ~AddPeerReturn(rt[k])
                THEN [@ EXCEPT !.pc = "returned"]
                ELSE [@ EXCEPT !.pc = "returned", !.followed = TRUE,
                               !.notified = {p \in pr.peers : p # rt[k].peer}]]
    /\ UNCHANGED <<db, hv, mn, ks, pr, gs>>

\* the goroutine is over
DvExit(k) ==
    /\ rt[k].pc = "returned"
    /\ rt' = [rt EXCEPT ![k] = CallIdle]
    /\ UNCHANGED <<db, hv, mn, ks, pr, gs>>

DiscoverNext ==
    \E k \in Callers :
        DvValidate(k) \/ DvPing(k) \/ ScAddPeerAttempt(k) \/ DvFollowUp(k) \/ DvExit(k)

DiscoverSpec == CallInit /\ [][DiscoverNext]_vars

---------------------------------------------------------------------------
(* Properties of the chain store.  The notions they are stated in: the    *)
(* stored blocks and their parents, balance_at and inclusion_set.          *)

IsStored(s, h) == \E r \in s.blocks : r.hash = HashValue(h)

NonGenesis(s) == {b \in StoredBlocks(s) : b.Hash # GenesisBlock.Hash}

ParentsIn(s, b) == {p \in StoredBlocks(s) : p.Hash = b.PreviousHash /\ p.Hash # b.Hash}

\* the addresses that hold, send or receive anything
Addresses(s) == {A1, A2, A1v2} \cup {r.address : r \in s.balances}

\* balance_at(B, a): the balance row of (B, a), 0 when there is none
BalanceAt(s, h, a) ==
    LET rows == {r \in s.balances : r.block_hash = HashValue(h) /\ r.address = a}
    IN  IF rows = {} THEN 0 ELSE (CHOOSE r \in rows : TRUE).balance

\* inclusion_set(B)
InclusionSet(s, h) == {r.tx_hash : r \in {x \in s.included_txs : x.block_hash = HashValue(h)}}

TxHashes(b) == {HashValue(b.Transactions[i].Hash) : i \in 1..Len(b.Transactions)}

\* the blocks on the path from b down to Genesis, b included
RECURSIVE Ancestry(_, _, _)
Ancestry(s, b, n) ==
    IF n = 0 THEN {b}
    ELSE {b} \cup UNION {Ancestry(s, p, n - 1) : p \in ParentsIn(s, b)}

RECURSIVE Spent(_, _, _)
Spent(b, a, i) ==
    IF i > Len(b.Transactions) THEN 0
    ELSE (IF b.Transactions[i].Source = a
            THEN b.Transactions[i].Amount + b.Transactions[i].Fee ELSE 0)
         + Spent(b, a, i + 1)

RECURSIVE Received(_, _, _)
Received(b, a, i) ==
    IF i > Len(b.Transactions) THEN 0
    ELSE (IF b.Transactions[i].Destination = a THEN b.Transactions[i].Amount ELSE 0)
         + Received(b, a, i + 1)

RECURSIVE Fees(_, _)
Fees(b, i) ==
    IF i > Len(b.Transactions) THEN 0 ELSE b.Transactions[i].Fee + Fees(b, i + 1)

\* the SignedTx rules, spelled out
TxRulesHold(t) ==
    /\ t.Amount > 0
    /\ t.Fee >= 0
    /\ t.Amount + t.Fee <= MaxInt64
    /\ t.PublicKey \in Keys
    /\ \E v \in {V1, V2} : t.Source = AddressFromKey(v, t.PublicKey)
    /\ VerifyPSS(t.PublicKey, TxJSON(TxOf(t)), t.Signature)

\* the block rules that do not involve the parent, spelled out
BlockRulesHold(b) ==
    /\ HashValid(b.Hash)
    /\ b.RewardOutput.Amount >= 0
    /\ b.RewardOutput.Amount <= 1000
    /\ Len(b.Transactions) <= 100
    /\ \A i \in 1..Len(b.Transactions) : TxRulesHold(b.Transactions[i])

\* C1: every stored block other than Genesis has a PreviousHash equal to the
\* hash of another stored block, and its Height is that parent's Height + 1.
C1_ParentAndHeight ==
    \A r \in db.blocks :
        r.hash # HashValue(GenesisBlock.Hash) =>
            /\ \E p \in db.blocks :
                /\ p.hash # r.hash
                /\ SqlEq(r.previous_hash, p.hash)
                /\ r.height = p.height + 1
            /\ LET b == DecodeBlock(r.block)
               IN  /\ ParentsIn(db, b) # {}
                   /\ \A p \in ParentsIn(db, b) : b.Height = p.Height + 1

\* a fork and a chain of two blocks are stored, and a block of the wrong
\* height on a stored parent has just been refused for its height
C1_Witness ==
    /\ \E b \in NonGenesis(db) : b.Height >= 2
    /\ \E b, c \in NonGenesis(db) : b.Hash # c.Hash /\ b.PreviousHash = c.PreviousHash
    /\ \E b \in BlockInputs(db) :
        /\ \E p \in ParentsIn(db, b) : b.Height # p.Height + 1
        /\ AddBlock(db, b).err = InvalidBlockError("cryptopuff: height mismatch")

\* C2: every stored block other than Genesis has a PoW-valid hash, a reward
\* between 0 and 1000, at most 100 transactions, and only transactions that
\* satisfy the SignedTx rules (Amount > 0, Fee >= 0, no overflow, source
\* matches the key, signature valid).
C2_StoredBlocksValid == \A b \in NonGenesis(db) : BlockRulesHold(b)

\* a block with transactions is stored, and blocks that break a rule are
\* offered and refused as invalid
C2_Witness ==
    /\ \E b \in NonGenesis(db) : Len(b.Transactions) >= 2
    /\ \E b \in BlockInputs(db) :
        /\ ParentsIn(db, b) # {}
        /\ ~HashValid(b.Hash)
        /\ IsInvalidBlockError(AddBlock(db, b).err)
    /\ \E b \in BlockInputs(db) :
        /\ ParentsIn(db, b) # {}
        /\ \E i \in 1..Len(b.Transactions) :
            ~VerifyPSS(b.Transactions[i].PublicKey, TxJSON(TxOf(b.Transactions[i])),
                       b.Transactions[i].Signature)
        /\ IsInvalidBlockError(AddBlock(db, b).err)

\* C3: for every stored block B and every address a, balance_at(B, a) >= 0.
C3_NoNegativeBalance ==
    /\ \A r \in db.balances : r.balance >= 0
    /\ \A b \in StoredBlocks(db) : \A a \in Addresses(db) : BalanceAt(db, b.Hash, a) >= 0

\* a stored block spends twice from one source, another one holds a
\* transfer of an address to itself, and two stored blocks are siblings
C3_Witness ==
    /\ \E b \in NonGenesis(db) :
        \E i, j \in 1..Len(b.Transactions) :
            i # j /\ b.Transactions[i].Source = b.Transactions[j].Source
    /\ \E b \in BlockInputs(db) :
        /\ ~IsStored(db, b.Hash)
        /\ \E i \in 1..Len(b.Transactions) :
            b.Transactions[i].Source = b.Transactions[i].Destination
        /\ AddBlock(db, b).err = Nil
    /\ \E b \in BlockInputs(db) :
        /\ ParentsIn(db, b) # {}
        /\ AddBlock(db, b).err = InvalidBlockError("cryptopuff: insufficient balance")

\* C4: for every stored non-Genesis block B and address a, balance_at(B, a)
\* is balance_at(parent(B), a), less Amount + Fee of B's transactions with
\* source a, plus Amount of B's transactions with destination a, plus
\* RewardAmount + all fees of B when a is B's reward destination and that
\* total is strictly positive.
C4_BalanceDelta ==
    \A b \in NonGenesis(db) : \A p \in ParentsIn(db, b) : \A a \in Addresses(db) :
        BalanceAt(db, b.Hash, a) =
            BalanceAt(db, p.Hash, a) - Spent(b, a, 1) + Received(b, a, 1)
            + (IF a = b.RewardOutput.Destination /\ b.RewardOutput.Amount + Fees(b, 1) > 0
                THEN b.RewardOutput.Amount + Fees(b, 1) ELSE 0)

\* a stored block pays its miner in fees alone, and another stored block
\* pays nothing at all
C4_Witness ==
    /\ \E b \in NonGenesis(db) :
        /\ b.RewardOutput.Amount = 0
        /\ Fees(b, 1) > 0
        /\ Len(b.Transactions) >= 2
    /\ \E b \in NonGenesis(db) : b.RewardOutput.Amount = 0 /\ b.Transactions = <<>>

\* C5: for every stored non-Genesis block B, inclusion_set(B) is
\* inclusion_set(parent(B)) together with the hashes of B's transactions; so
\* every transaction of a block on the path down from a block T has its hash
\* in inclusion_set(T).
C5_InclusionSet ==
    /\ \A b \in NonGenesis(db) : \A p \in ParentsIn(db, b) :
        InclusionSet(db, b.Hash) = InclusionSet(db, p.Hash) \cup TxHashes(b)
    /\ \A t \in StoredBlocks(db) : \A a \in Ancestry(db, t, Cardinality(db.blocks)) :
        TxHashes(a) \subseteq InclusionSet(db, t.Hash)

\* a stored block with transactions of its own inherits the transactions of
\* its parent
C5_Witness ==
    \E t \in NonGenesis(db) : \E p \in ParentsIn(db, t) :
        /\ TxHashes(t) # {}
        /\ TxHashes(p) # {}
        /\ TxHashes(p) \subseteq InclusionSet(db, t.Hash)

\* C6: no SignedTx hash is in two different stored blocks on one ancestor
\* path, nor twice in one stored block; AddBlock refuses a block with a
\* transaction whose hash is in the inclusion set inherited from the parent
\* or was added by an earlier transaction of the same block.
C6_NoReplay ==
    /\ \A t \in StoredBlocks(db) :
        \A a1, a2 \in Ancestry(db, t, Cardinality(db.blocks)) :
            a1.Hash # a2.Hash => TxHashes(a1) \cap TxHashes(a2) = {}
    /\ \A b \in StoredBlocks(db) : \A i, j \in 1..Len(b.Transactions) :
        i # j => b.Transactions[i].Hash # b.Transactions[j].Hash
    /\ \A b \in BlockInputs(db) :
        (/\ ~IsStored(db, b.Hash)
         /\ \E p \in ParentsIn(db, b) :
            \/ TxHashes(b) \cap InclusionSet(db, p.Hash) # {}
            \/ \E i, j \in 1..Len(b.Transactions) :
                i # j /\ b.Transactions[i].Hash = b.Transactions[j].Hash)
        => /\ IsInvalidBlockError(AddBlock(db, b).err)
           /\ AddBlock(db, b).db = db

\* a block repeating a transaction of its parent, and a block holding one
\* affordable transaction twice, are both refused as replays
C6_Witness ==
    /\ \E b \in BlockInputs(db) : \E p \in ParentsIn(db, b) :
        /\ TxHashes(b) \cap InclusionSet(db, p.Hash) # {}
        /\ AddBlock(db, b).err =
            InvalidBlockError("cryptopuff: transaction already included in blockchain")
    /\ \E b \in BlockInputs(db) : \E p \in ParentsIn(db, b) :
        /\ TxHashes(b) \cap InclusionSet(db, p.Hash) = {}
        /\ Len(b.Transactions) = 2
        /\ b.Transactions[1].Hash = b.Transactions[2].Hash
        /\ AddBlock(db, b).err =
            InvalidBlockError("cryptopuff: transaction already included in blockchain")

\* C7: AddBlock(B) with B.PreviousHash not the hash of any stored block
\* returns the UnknownParent error and leaves every table unchanged.
C7_UnknownParent ==
    \A b \in BlockInputs(db) :
        ~IsStored(db, b.PreviousHash) =>
            /\ AddBlock(db, b).err = ErrUnknownParent
            /\ AddBlock(db, b).db = db
            /\ addBlock(db, b).db = db

\* blocks are stored besides Genesis, and a well-formed block on a parent
\* that is not stored is offered
C7_Witness ==
    /\ NonGenesis(db) # {}
    /\ \E b \in BlockInputs(db) :
        /\ ~IsStored(db, b.PreviousHash)
        /\ b.PreviousHash # EmptyHash
        /\ BlockRulesHold(b)
        /\ AddBlock(db, b).err = ErrUnknownParent

\* C8, as first stated: AddBlock with a block whose hash is already stored
\* returns success and changes nothing.
C8_StoredBlockSucceeds ==
    \A b \in BlockInputs(db) :
        IsStored(db, b.Hash) => AddBlock(db, b) = [db |-> db, err |-> Nil]

\* C8: AddBlock with a block whose hash is already stored changes nothing;
\* it returns success when the block's parent is stored, that is for every
\* stored block but Genesis, and UnknownParent for Genesis.  A second
\* AddBlock(B) after a first leaves the state of the first and returns what
\* the first returned.
C8_Idempotent ==
    \A b \in BlockInputs(db) :
        /\ IsStored(db, b.Hash) =>
            /\ AddBlock(db, b).db = db
            /\ addBlock(db, b).db = db
            /\ b.Hash # GenesisBlock.Hash => AddBlock(db, b).err = Nil
            /\ b.Hash = GenesisBlock.Hash => AddBlock(db, b).err = ErrUnknownParent
        /\ LET first == AddBlock(db, b)
               second == AddBlock(first.db, b)
           IN  second.db = first.db /\ second.err = first.err

\* a stored block with a reward and with transactions is offered again, and
\* so is Genesis
C8_Witness ==
    /\ \E b \in BlockInputs(db) :
        /\ IsStored(db, b.Hash)
        /\ b.RewardOutput.Amount > 0
        /\ b.Transactions # <<>>
        /\ AddBlock(db, b).err = Nil
    /\ \E b \in BlockInputs(db) :
        /\ b.Hash = GenesisBlock.Hash
        /\ AddBlock(db, b).err = ErrUnknownParent

\* C9: a failed AddBlock or AddBlocks leaves the store exactly as it was,
\* though the block row and the copies of the parent's balances and
\* inclusion set are written before validation, and though earlier blocks
\* of a chain were applied before the one that failed.
C9_FailureRollsBack ==
    /\ \A b \in BlockInputs(db) : AddBlock(db, b).err # Nil => AddBlock(db, b).db = db
    /\ \A c \in ChainInputs(db) : AddBlocks(db, c).err # Nil => AddBlocks(db, c).db = db

\* a block fails after its row, balances and inclusion set were written,
\* and a chain fails after an earlier block of it was applied
C9_Witness ==
    /\ \E b \in BlockInputs(db) :
        LET r == addBlock(db, b)
        IN  /\ r.err # Nil
            /\ b.Transactions = <<>>
            /\ r.db.blocks # db.blocks
            /\ r.db.balances # db.balances
            /\ r.db.included_txs # db.included_txs
    /\ \E c \in ChainInputs(db) :
        LET r == addBlocks(db, c)
        IN  /\ r.err # Nil
            /\ \E i \in 1..Len(c) : ~IsStored(db, c[i].Hash) /\ IsStored(r.db, c[i].Hash)

\* the first index of the chain whose block is stored, 0 if there is none
FirstStored(s, c) ==
    LET stored == {i \in 1..Len(c) : IsStored(s, c[i].Hash)}
    IN  IF stored = {} THEN 0 ELSE CHOOSE i \in stored : \A j \in stored : i <= j

\* AddBlock for the blocks at i, i - 1, ..., 1, stopping at the first error
RECURSIVE OneByOne(_, _, _)
OneByOne(s, c, i) ==
    IF i < 1 THEN [db |-> s, err |-> Nil]
    ELSE LET r == AddBlock(s, c[i])
         IN  IF r.err # Nil THEN r ELSE OneByOne(r.db, c, i - 1)

\* C10: AddBlocks(chain), tip first, with f the smallest index whose block
\* is stored: if there is none or f is the tip's, the store is unchanged
\* and the call succeeds; otherwise the blocks at f-1, ..., 0 are applied
\* with AddBlock in that order, so that for a valid chain every block above
\* the known ancestor is stored afterwards and the call returns no error.
\* (Indices here start at 1.)
C10_AddBlocks ==
    \A c \in ChainInputs(db) :
        LET f == FirstStored(db, c)
            r == AddBlocks(db, c)
            q == OneByOne(db, c, f - 1)
        IN  IF f <= 1 THEN r = [db |-> db, err |-> Nil]
            ELSE /\ r.err = q.err
                 /\ q.err = Nil =>
                    /\ r.db = q.db
                    /\ \A i \in 1..(f - 1) : IsStored(r.db, c[i].Hash)
                 /\ q.err # Nil => r.db = db

\* a chain with two new blocks above a stored one is linked in, a chain
\* with no stored block and a chain whose tip is stored are ignored
C10_Witness ==
    /\ \E c \in ChainInputs(db) :
        /\ FirstStored(db, c) >= 3
        /\ AddBlocks(db, c).err = Nil
        /\ \A i \in 1..(FirstStored(db, c) - 1) :
            ~IsStored(db, c[i].Hash) /\ IsStored(AddBlocks(db, c).db, c[i].Hash)
    /\ \E c \in ChainInputs(db) : Len(c) >= 2 /\ FirstStored(db, c) = 0
    /\ \E c \in ChainInputs(db) : Len(c) >= 2 /\ FirstStored(db, c) = 1
    /\ NonGenesis(db) # {}

\* the rows of the tx table with the hash of stx
TxRowsOf(s, stx) == {r \in s.txs : r.hash = HashValue(stx.Hash)}

\* C11: AddTx is idempotent on the transaction hash: the same valid,
\* not-yet-included SignedTx submitted twice succeeds both times and leaves
\* exactly one tx row for that hash.  (The blocks table is the same for both
\* calls, and so is the tip the store picks.)
C11_AddTxIdempotent ==
    \A stx \in TxInputs : \A tip \in BestBlocks(db) :
        LET first == AddTx(db, stx, tip)
            second == AddTx(first.db, stx, tip)
        IN  first.err = Nil =>
                /\ second.err = Nil
                /\ second.db = first.db
                /\ Cardinality(TxRowsOf(second.db, stx)) = 1
                /\ TxRowsOf(second.db, stx) = {TxRow(stx)}

\* a transaction that is in the tx table and not in the tip's inclusion set
\* is submitted again and accepted, and another one is accepted for the
\* first time
C11_Witness ==
    /\ \E stx \in TxInputs : \E tip \in BestBlocks(db) :
        /\ TxRowsOf(db, stx) # {}
        /\ HashValue(stx.Hash) \notin InclusionSet(db, HashScan(tip.hash))
        /\ AddTx(db, stx, tip).err = Nil
    /\ \E stx \in TxInputs : \E tip \in BestBlocks(db) :
        /\ TxRowsOf(db, stx) = {}
        /\ AddTx(db, stx, tip).err = Nil

\* the rows of included_txs for stx at the block h
IncludedRows(s, h, stx) ==
    {r \in s.included_txs : r.block_hash = HashValue(h) /\ r.tx_hash = HashValue(stx.Hash)}

\* C12, as first stated: once a SignedTx is in the inclusion set of the
\* current tip, a further AddTx of it returns the InvalidBlockError
\* "transaction already included in blockchain", and the tip's inclusion set
\* still holds its hash exactly once.
C12_AlreadyIncludedAlways ==
    \A stx \in TxInputs : \A tip \in BestBlocks(db) :
        IncludedRows(db, HashScan(tip.hash), stx) # {} =>
            LET r == AddTx(db, stx, tip)
            IN  /\ r.err = InvalidBlockError(
                        "cryptopuff: transaction already included in blockchain")
                /\ Cardinality(IncludedRows(r.db, HashScan(tip.hash), stx)) = 1

\* C12: once a SignedTx is in the inclusion set of the current tip, a
\* further AddTx of it returns an InvalidBlockError and changes nothing:
\* "transaction already included in blockchain" when the source's balance at
\* the tip still covers Amount + Fee, "insufficient balance" when it does
\* not, the balance being looked at first.  The tip's inclusion set still
\* holds its hash exactly once.
C12_MinedTxRefused ==
    \A stx \in TxInputs : \A tip \in BestBlocks(db) :
        IncludedRows(db, HashScan(tip.hash), stx) # {} =>
            LET r == AddTx(db, stx, tip)
                covered == BalanceAt(db, HashScan(tip.hash), stx.Source)
                                >= stx.Amount + stx.Fee
            IN  /\ IsInvalidBlockError(r.err)
                /\ covered => r.err = InvalidBlockError(
                        "cryptopuff: transaction already included in blockchain")
                /\ ~covered => r.err = InvalidBlockError("cryptopuff: insufficient balance")
                /\ r.db = db
                /\ Cardinality(IncludedRows(r.db, HashScan(tip.hash), stx)) = 1

\* at one tip, a mined transaction whose source can still pay is refused as
\* included, and a mined transaction whose source cannot is refused for its
\* balance
C12_Witness ==
    \E tip \in BestBlocks(db) :
        /\ \E stx \in TxInputs :
            /\ IncludedRows(db, HashScan(tip.hash), stx) # {}
            /\ AddTx(db, stx, tip).err = InvalidBlockError(
                    "cryptopuff: transaction already included in blockchain")
        /\ \E stx \in TxInputs :
            /\ IncludedRows(db, HashScan(tip.hash), stx) # {}
            /\ AddTx(db, stx, tip).err = InvalidBlockError("cryptopuff: insufficient balance")

\* C13: AddTx validates against the current tip: a SignedTx whose source
\* holds less than Amount + Fee at the best block (no balance row counting
\* as 0) is refused with an InvalidBlockError and the tx table is left as it
\* was; a transaction is inserted only if it passed the amount, signature,
\* balance and not-already-included checks.
C13_AddTxAgainstTip ==
    \A stx \in TxInputs : \A tip \in BestBlocks(db) :
        LET r == AddTx(db, stx, tip)
            h == HashScan(tip.hash)
        IN  /\ BalanceAt(db, h, stx.Source) < stx.Amount + stx.Fee =>
                /\ IsInvalidBlockError(r.err)
                /\ r.db = db
            /\ r.db.txs # db.txs =>
                /\ r.err = Nil
                /\ TxRulesHold(stx)
                /\ BalanceAt(db, h, stx.Source) >= stx.Amount + stx.Fee
                /\ IncludedRows(db, h, stx) = {}
                /\ r.db = [db EXCEPT !.txs = @ \cup {TxRow(stx)}]
            /\ r.err # Nil => r.db = db

\* a well-formed transaction that an earlier stored block could pay for is
\* refused because the tip cannot, and another transaction is inserted
C13_Witness ==
    /\ \E stx \in ValidFormTxs : \E tip \in BestBlocks(db) :
        /\ \E b \in StoredBlocks(db) :
            BalanceAt(db, b.Hash, stx.Source) >= stx.Amount + stx.Fee
        /\ BalanceAt(db, HashScan(tip.hash), stx.Source) < stx.Amount + stx.Fee
        /\ AddTx(db, stx, tip).err = InvalidBlockError("cryptopuff: insufficient balance")
    /\ \E stx \in TxInputs : \E tip \in BestBlocks(db) :
        AddTx(db, stx, tip).db.txs # db.txs

\* what the address a holds once the first n transactions of stxs are
\* applied to the balances of the block h
RECURSIVE BalanceAfter(_, _, _, _, _)
BalanceAfter(s, h, stxs, a, n) ==
    IF n = 0 THEN BalanceAt(s, h, a)
    ELSE BalanceAfter(s, h, stxs, a, n - 1)
         - (IF stxs[n].Source = a THEN stxs[n].Amount + stxs[n].Fee ELSE 0)
         + (IF stxs[n].Destination = a THEN stxs[n].Amount ELSE 0)

\* C14: PendingTxs(tip, limit) never returns a sequence that drives a source
\* negative: applying the returned transactions in the returned order to the
\* tip's balances, every transaction's source holds at least Amount + Fee
\* at the moment it is applied.
C14_PendingSolvent ==
    \A tip \in Hashes(db) : \A limit \in LimitInputs :
        \A rows \in Orders(PendingRows(db, tip)) :
            LET out == PendingTxs(db, tip, limit, rows).stxs
            IN  \A i \in 1..Len(out) :
                    BalanceAfter(db, tip, out, out[i].Source, i - 1)
                        >= out[i].Amount + out[i].Fee

\* two transactions are returned, the second one payable only with what
\* the first one brings its source; and of two transactions of one source
\* that the tip can pay one by one but not together, one is returned
C14_Witness ==
    /\ \E tip \in Hashes(db) : \E limit \in LimitInputs :
        \E rows \in Orders(PendingRows(db, tip)) :
            LET out == PendingTxs(db, tip, limit, rows).stxs
            IN  /\ Len(out) = 2
                /\ BalanceAt(db, tip, out[2].Source) < out[2].Amount + out[2].Fee
    /\ \E tip \in Hashes(db) : \E limit \in LimitInputs :
        \E rows \in Orders(PendingRows(db, tip)) :
            LET out == PendingTxs(db, tip, limit, rows).stxs
            IN  /\ limit > Len(rows)
                /\ \E i, j \in 1..Len(rows) :
                    LET stx == DecodeSignedTx(rows[i].tx)
                        sty == DecodeSignedTx(rows[j].tx)
                    IN  /\ i < j
                        /\ stx.Source = sty.Source
                        /\ BalanceAt(db, tip, stx.Source) >= stx.Amount + stx.Fee
                        /\ BalanceAt(db, tip, sty.Source) >= sty.Amount + sty.Fee
                        /\ \E k \in 1..Len(out) : out[k] = stx
                        /\ \A k \in 1..Len(out) : out[k] # sty

\* C15: PendingTxs(tip, limit) returns at most limit transactions, for
\* every limit >= 0 and every content of the tx table, and every returned
\* transaction is one that is not in the inclusion set of tip.
C15_AtMostLimit ==
    \A tip \in Hashes(db) : \A limit \in LimitInputs :
        \A rows \in Orders(PendingRows(db, tip)) :
            LET out == PendingTxs(db, tip, limit, rows).stxs
            IN  /\ Len(out) <= limit
                /\ \A i \in 1..Len(out) :
                    HashValue(out[i].Hash) \notin InclusionSet(db, tip)

\* the rows PendingTxs deleted from the tx table
Evicted(s, tip, limit, rows) == s.txs \ PendingTxs(s, tip, limit, rows).db.txs

\* how many of the returned transactions come before position i of the rows
ReturnedBefore(rows, out, i) ==
    Cardinality({j \in 1..(i - 1) : \E k \in 1..Len(out) : out[k] = DecodeSignedTx(rows[j].tx)})

\* C16, as first stated: PendingTxs deletes a tx row only when the source's
\* balance at the tip itself is below Amount + Fee; a transaction that is
\* valid on its own against the tip's balances is never deleted.
C16_EvictedOnlyIfUnpayableAtTip ==
    \A tip \in Hashes(db) : \A limit \in LimitInputs :
        \A rows \in Orders(PendingRows(db, tip)) :
            \A t \in Evicted(db, tip, limit, rows) :
                BalanceAt(db, tip, t.source) < t.amount + t.fee

\* C16: PendingTxs deletes a tx row only when the transaction fails its
\* re-validation against the scratch balances, that is when its source holds
\* less than Amount + Fee once the transactions accepted before it in the
\* same call are applied to the tip's balances, and only when no block
\* refers to the row.  A transaction that is valid on its own against the
\* tip's balances is deleted when the transactions accepted before it have
\* spent what its source held.
C16_EvictedOnlyIfUnpayableInScratch ==
    \A tip \in Hashes(db) : \A limit \in LimitInputs :
        \A rows \in Orders(PendingRows(db, tip)) :
            LET out == PendingTxs(db, tip, limit, rows).stxs
            IN  \A t \in Evicted(db, tip, limit, rows) :
                    /\ ~\E r \in db.block_txs : r.tx_hash = t.hash
                    /\ ~\E r \in db.included_txs : r.tx_hash = t.hash
                    /\ \A k \in 1..Len(out) : HashValue(out[k].Hash) # t.hash
                    /\ \E i \in 1..Len(rows) :
                        /\ rows[i] = t
                        /\ BalanceAfter(db, tip, out, t.source, ReturnedBefore(rows, out, i))
                                < t.amount + t.fee

\* a transaction that the tip could pay on its own is deleted after another
\* one of its source was accepted, and a transaction that cannot be paid is
\* kept because a block refers to it
C16_Witness ==
    /\ \E tip \in Hashes(db) : \E limit \in LimitInputs :
        \E rows \in Orders(PendingRows(db, tip)) :
            \E t \in Evicted(db, tip, limit, rows) :
                BalanceAt(db, tip, t.source) >= t.amount + t.fee
    /\ \E tip \in Hashes(db) : \E limit \in LimitInputs :
        \E rows \in Orders(PendingRows(db, tip)) :
            \E i \in 1..Len(rows) :
                /\ BalanceAt(db, tip, rows[i].source) < rows[i].amount + rows[i].fee
                /\ \E r \in db.block_txs : r.tx_hash = rows[i].hash
                /\ limit > Len(rows)
                /\ rows[i] \in PendingTxs(db, tip, limit, rows).db.txs

---------------------------------------------------------------------------
(* Properties of TransactWithRetry, stated over what the call did.        *)

\* the places of rt.log where the call made the given call
Ops(op) == {k \in 1..Len(rt.log) : rt.log[k].op = op}

\* the errors sqlite's predicate takes for a deadlock
Retriable(e) == e \in {SqliteError("ErrBusy"), SqliteError("ErrLocked"), SqliteError("ErrProtocol")}

\* the attempts that have failed with a retriable error
RetriableFailures == {k \in Ops("Transact") : Retriable(rt.log[k].err)}

\* C17: with N >= 1 tries the closure runs at most N times; an attempt is
\* followed by another only when it failed with a retriable error; a sleep
\* follows attempt i at once, lasts backoff(i), happens at most once per
\* attempt and only before the last one (at most N - 1 sleeps), and is
\* followed by attempt i + 1, never by the return.
C17_BoundedRetries ==
    rt.tries >= 1 =>
        /\ Cardinality(Ops("f")) <= rt.tries
        /\ Cardinality(Ops("Begin")) <= rt.tries
        /\ \A k \in Ops("Transact") : k < Len(rt.log) => Retriable(rt.log[k].err)
        /\ \A k \in Ops("Begin") :
            IF rt.log[k].i = 0 THEN k = 1
            ELSE \E j \in Ops("Transact") :
                    /\ j < k
                    /\ rt.log[j].i = rt.log[k].i - 1
                    /\ Retriable(rt.log[j].err)
        /\ \A k \in Ops("Sleep") :
            /\ k > 1
            /\ rt.log[k - 1].op = "Transact"
            /\ rt.log[k - 1].i = rt.log[k].i
            /\ rt.log[k].i < rt.tries - 1
            /\ \E c \in 0..(cMax - 1) : rt.log[k].d = backoff(rt.log[k].i, c)
            /\ \A j \in Ops("Sleep") : rt.log[j].i = rt.log[k].i => j = k
            /\ k < Len(rt.log) =>
                rt.log[k + 1].op = "Begin" /\ rt.log[k + 1].i = rt.log[k].i + 1
            /\ k = Len(rt.log) => rt.pc \in {"loop", "begin"}
        /\ Cardinality(Ops("Sleep")) <= rt.tries - 1

\* three tries, three runs of the closure, two sleeps, and the call is over
C17_Witness ==
    /\ rt.pc = "done"
    /\ rt.tries = 3
    /\ Cardinality(Ops("f")) = 3
    /\ Cardinality(Ops("Sleep")) = 2

\* the first three clauses of C18: nil as soon as an attempt commits, a
\* non-retriable error as it is and at once, the last error wrapped with N
\* after N retriable failures
OutcomeRules ==
    /\ \A k \in Ops("Commit") : rt.log[k].err = Nil =>
        /\ k >= Len(rt.log) - 1
        /\ k = Len(rt.log) - 1 =>
            rt.log[k + 1].op = "Transact" /\ rt.pc = "done" /\ rt.ret = Nil
    /\ (rt.pc = "done" /\ rt.ret = Nil) =>
        /\ Len(rt.log) >= 2
        /\ rt.log[Len(rt.log) - 1].op = "Commit"
        /\ rt.log[Len(rt.log) - 1].err = Nil
    /\ \A k \in Ops("Transact") : (rt.log[k].err # Nil /\ ~Retriable(rt.log[k].err)) =>
        k = Len(rt.log) /\ rt.pc = "done" /\ rt.ret = rt.log[k].err
    /\ (rt.pc = "done" /\ Cardinality(RetriableFailures) = rt.tries) =>
        /\ rt.log[Len(rt.log)].op = "Transact"
        /\ rt.ret = [kind |-> "TxError", cause |-> rt.log[Len(rt.log)].err, tries |-> rt.tries]
    /\ (rt.pc = "done" /\ rt.ret.kind = "TxError") =>
        Cardinality(RetriableFailures) = rt.tries

\* an attempt whose closure failed: Rollback is called next, and Transact
\* returns the closure's error whatever Rollback answered
ClosureErrorKept ==
    \A k \in Ops("f") : (rt.log[k].err # Nil /\ k + 2 <= Len(rt.log)) =>
        /\ rt.log[k + 1].op = "Rollback" /\ rt.log[k + 1].i = rt.log[k].i
        /\ rt.log[k + 2].op = "Transact" /\ rt.log[k + 2].i = rt.log[k].i
        /\ rt.log[k + 2].err = rt.log[k].err

\* C18, as first stated: the outcome rules, and in every failing attempt
\* the transaction is rolled back and the error of the attempt is the
\* closure's.
C18_EveryFailureRolledBack ==
    rt.tries >= 1 =>
        /\ OutcomeRules
        /\ ClosureErrorKept
        /\ \A k \in Ops("Transact") : rt.log[k].err # Nil =>
            /\ \E j \in Ops("Rollback") : rt.log[j].i = rt.log[k].i
            /\ \E j \in Ops("f") : rt.log[j].i = rt.log[k].i /\ rt.log[j].err = rt.log[k].err

\* C18: the outcome rules; in every attempt whose closure returned an error
\* the transaction is rolled back and the error of the attempt is the
\* closure's, never the rollback's; an attempt fails without a rollback
\* when Begin or Commit returned the error, and that error is the
\* attempt's.
C18_Outcome ==
    rt.tries >= 1 =>
        /\ OutcomeRules
        /\ ClosureErrorKept
        /\ \A k \in Ops("Transact") : rt.log[k].err # Nil =>
            /\ rt.log[k - 1].i = rt.log[k].i
            /\ rt.log[k - 1].op \in {"Begin", "Commit", "Rollback"}
            /\ rt.log[k - 1].op \in {"Begin", "Commit"} =>
                /\ rt.log[k - 1].err = rt.log[k].err
                /\ ~\E j \in Ops("Rollback") : rt.log[j].i = rt.log[k].i
            /\ rt.log[k - 1].op = "Rollback" =>
                /\ rt.log[k - 2].op = "f"
                /\ rt.log[k - 2].err = rt.log[k].err

\* two tries: the closure fails with a retriable error both times, the
\* second rollback fails too, and the closure's last error comes back
\* wrapped with 2
C18_Witness ==
    /\ rt.pc = "done"
    /\ rt.tries = 2
    /\ rt.ret = TxError(SqliteError("ErrLocked"), 2)
    /\ \E k \in Ops("Rollback") : rt.log[k].i = 1 /\ rt.log[k].err # Nil
    /\ \E k \in Ops("f") : rt.log[k].i = 1 /\ rt.log[k].err = SqliteError("ErrLocked")

---------------------------------------------------------------------------
(* Properties of the reads of the chain.  BestBlock and Blocks run the    *)
(* same ORDER BY height DESC LIMIT 1 over the same table, so among rows   *)
(* of equal height both start from the same row.                          *)

\* C19: BestBlock returns a stored block of greatest Height, Genesis on a
\* store that holds nothing else; Blocks returns the chain that ends at that
\* block, tip first: each element's PreviousHash is the Hash of the next,
\* the last element is Genesis, no block appears twice, and the length is
\* the tip's Height + 1, whatever else is stored.
C19_BestBlockAndChain ==
    \A tip \in BestBlocks(db) :
        LET best == BestBlock(db, tip)
            chain == Blocks(db, tip)
        IN  /\ best \in StoredBlocks(db)
            /\ \A b \in StoredBlocks(db) : b.Height <= best.Height
            /\ db.blocks = EmptyDB.blocks => best = GenesisBlock
            /\ Len(chain) = best.Height + 1
            /\ chain[1] = best
            /\ chain[Len(chain)] = GenesisBlock
            /\ \A k \in 1..(Len(chain) - 1) : chain[k].PreviousHash = chain[k + 1].Hash
            /\ \A k \in 1..Len(chain) : chain[k] \in StoredBlocks(db)
            /\ \A j, k \in 1..Len(chain) : chain[j] = chain[k] => j = k

\* a chain of three blocks and a stored block of Height 1 that is not on it
C19_Witness ==
    \E tip \in BestBlocks(db) :
        /\ Len(Blocks(db, tip)) >= 3
        /\ \E b \in StoredBlocks(db) :
            /\ b.Height = 1
            /\ \A k \in 1..Len(Blocks(db, tip)) : Blocks(db, tip)[k] # b

---------------------------------------------------------------------------
(* Properties of Hash.Valid.                                               *)

\* the leading 18 bits of h are zero: the two leading bytes and the two top
\* bits of the third
EighteenZeroBits(h) == h.b0 = 0 /\ h.b1 = 0 /\ h.b2 \div 64 = 0

\* C20: Hash.Valid returns true for exactly the hashes whose leading 18
\* bits are zero, and false for every other hash.
C20_ValidIffEighteenZeroBits ==
    hv.pc = "done" => (hv.valid <=> EighteenZeroBits(hv.h))

---------------------------------------------------------------------------
(* Properties of the miner.                                                *)

\* everything a searcher reads at the top of its loop
AllRead == {"addr", "version", "block", "stxs"}

\* C21: a searcher generates a candidate, and calls AddBlock with one, only
\* straight after a check that loaded the value of its snapshot; a check
\* that loaded another value sends it to the top of the loop with its
\* locals dropped, and it comes back to the check only after it has read
\* the miner address, the version, the best block and the pending
\* transactions again; the candidate handed to AddBlock is built from those.
C21_Preemption ==
    \A i \in Searchers :
        LET m == Searcher(i)
        IN  /\ m.pc \in {"new", "add"} => m.lastLoad = m.version
            /\ m.pc \in {"check", "new", "add"} => m.read = AllRead
            /\ m.preempted =>
                /\ m.pc = "addr"
                /\ m.read = {}
                /\ m.next = <<>>
            /\ m.pc = "add" =>
                /\ Len(m.next) = 1
                /\ HashValid(m.next[1].Hash)
                /\ m.next[1].PreviousHash = m.block.Hash
                /\ m.next[1].Height = m.block.Height + 1
                /\ m.next[1].RewardOutput.Destination = m.addr
                /\ m.next[1].Transactions = m.stxs

\* a searcher whose check has just loaded another value than its snapshot,
\* while the other searcher holds a candidate for AddBlock
C21_Witness ==
    \E i, j \in Searchers :
        /\ Searcher(i).preempted
        /\ Searcher(j).pc = "add"
        /\ mn.bestBlockVersion # 0

---------------------------------------------------------------------------
(* Properties of the peer set.                                            *)

\* C23: whatever was announced, pulled, registered at start-up or
\* maintained, no string of the peers table equals the node's own external
\* address when letter case is ignored, and every string of the table is
\* its own lowercase form.
C23_OwnAddressNeverPeer ==
    pr.up =>
        \A p \in pr.peers :
            /\ ToLower(p) = p
            /\ ToLower(p) # ToLower(pr.client)

\* the node runs as n1, was last offered N1, and holds another peer
C23_Witness ==
    /\ pr.client = <<"n", "1">>
    /\ pr.seen = <<"N", "1">>
    /\ <<"p", "1">> \in pr.peers

\* C24: a step takes a peer out of the peers table only when it is the
\* maintenance ping of that peer, the ping failed and the peer is not
\* well-known; a maintenance ping that fails on a peer that is not
\* well-known leaves that peer out of the table; a well-known peer of the
\* table stays in it.
C24_RemovalOnlyOnFailedPing ==
    [][/\ \A p \in pr.peers \ pr'.peers :
            /\ p \notin pr.wellKnownPeers
            /\ pr.peers \ pr'.peers = {p}
            /\ \E t \in Tasks :
                /\ pr.tasks[t] = [pc |-> "maintain", peer |-> p]
                /\ pr'.tasks[t].pc = "sync"
            /\ pr'.pinged = [peer |-> p, ok |-> FALSE, wellKnown |-> FALSE,
                             before |-> TRUE, after |-> FALSE]
       /\ \A t \in Tasks :
            (/\ pr.tasks[t].pc = "maintain"
             /\ pr'.tasks[t].pc = "sync"
             /\ ~pr'.pinged.ok
             /\ pr.tasks[t].peer \notin pr.wellKnownPeers)
                => pr.tasks[t].peer \notin pr'.peers
       /\ \A p \in pr.wellKnownPeers \cap pr.peers : p \in pr'.peers
      ]_vars

\* the last maintenance ping failed on q1 and removed it, while the
\* well-known p1 is in the table
C24_Witness ==
    /\ <<"p", "1">> \in pr.wellKnownPeers \cap pr.peers
    /\ pr.pinged = [peer |-> <<"q", "1">>, ok |-> FALSE, wellKnown |-> FALSE,
                    before |-> TRUE, after |-> FALSE]

---------------------------------------------------------------------------
(* Properties of the gossip handlers.                                     *)

\* C26: POST /api/blocks whose AddBlock answered ErrUnknownParent writes no
\* error status, does not bump bestBlockVersion, and starts the pull from
\* the peer of its X-Peer header; the pull applies the downloaded list with
\* AddBlocks and bumps bestBlockVersion only when AddBlocks answered nil.
C26_UnknownParentPull ==
    /\ (gs.last.handler = "addBlock" /\ gs.last.err = ErrUnknownParent) =>
            /\ gs.last.status = StatusOK
            /\ ~gs.last.bump
            /\ gs.last.pull = {gs.last.peer}
            /\ gs.last.peer \in gs.pulls
    /\ (gs.last.handler = "addBlock" /\ gs.last.err # ErrUnknownParent) =>
            gs.last.pull = {}
    /\ gs.last.handler = "pull" =>
            /\ gs.last.bump => (gs.last.applied /\ gs.last.added = Nil)
            /\ (gs.last.applied /\ gs.last.added # Nil) => gs.last.err.cause = gs.last.added

\* the only bump so far is the one of a pull from q1, and it stored a block
C26_Witness ==
    /\ gs.last.handler = "pull" /\ gs.last.peer = <<"q", "1">>
    /\ gs.last.bump
    /\ mn.bestBlockVersion = 1
    /\ Cardinality(db.blocks) = 2

\* C27: POST /api/txs/broadcast, POST /api/txs and POST /api/blocks answer
\* an InvalidBlockError of AddTx or AddBlock with a status 4xx.
C27_InvalidSurfaced4xx ==
    (/\ gs.last.handler \in {"addTx", "broadcastTx", "addBlock"}
     /\ IsInvalidBlockError(gs.last.err))
        => gs.last.status \div 100 = 4

\* what fetchTxs handed to AddTx, in the order of the pulled mempool
Fed == [i \in 1..Len(gs.last.calls) |-> gs.last.calls[i].stx]

\* the calls of AddTx that answered an error that is not an
\* InvalidBlockError
Aborting ==
    {i \in 1..Len(gs.last.calls) :
        gs.last.calls[i].err # Nil /\ ~IsInvalidBlockError(gs.last.calls[i].err)}

\* C28: fetchTxs hands the pulled transactions to AddTx in order; a call
\* that answers an InvalidBlockError is followed by the call for the next
\* transaction and leaves no error; the pull stops short of the end of the
\* list only at a call that answered another error, which it returns.
C28_MempoolPullDropsInvalid ==
    gs.last.handler = "fetchTxs" =>
        LET stxs == UpdateHashes(gs.last.stxs)
            n == Len(gs.last.calls)
        IN  /\ n <= Len(stxs)
            /\ Fed = SubSeq(stxs, 1, n)
            /\ Aborting \subseteq {n}
            /\ n < Len(stxs) => Aborting = {n}
            /\ Aborting # {} => (gs.last.err # Nil /\ gs.last.err.cause = gs.last.calls[n].err)
            /\ (Aborting = {} /\ gs.last.stxs # <<>>) => (gs.last.err = Nil /\ gs.last.bump)

\* the first pulled transaction was refused as invalid, the second was fed
\* and accepted
C28_Witness ==
    /\ gs.last.handler = "fetchTxs"
    /\ Len(gs.last.calls) = 2
    /\ IsInvalidBlockError(gs.last.calls[1].err)
    /\ gs.last.calls[2].err = Nil
    /\ gs.last.err = Nil

\* C29: a full sync whose pulled block list AddBlocks refused with an
\* InvalidBlockError goes on to pull the mempool.
C29_SyncSurvivesInvalidBlock ==
    (/\ gs.last.handler = "fetchBlocks"
     /\ gs.last.applied
     /\ IsInvalidBlockError(gs.last.added))
        => (gs.sync = "txs" /\ gs.last.err = Nil)

---------------------------------------------------------------------------
(* Properties of the key store.                                           *)

\* C30: once the store was opened, and whatever AddKey and SetMinerAddress
\* calls followed, the miner_address table holds exactly one address and
\* the keys table holds a private key for that address.
C30_MinerAddressIsOwnKey ==
    ks.open =>
        /\ Len(ks.miner_address) = 1
        /\ \E r \in ks.keys : r.address = ks.miner_address[1]

\* a step of a handler, a pull or a searcher: the peers table stays
HandlerStep == pr' = pr /\ <<db, mn, gs>>' # <<db, mn, gs>>

\* C31 as stated: whatever a step accepts into the store, mined, pushed by
\* a peer, pulled or broadcast, is pushed to every peer of the peers table.
C31_AcceptedIsPushed ==
    [][(HandlerStep /\ db' # db) => gs'.last.pushes = pr.peers]_vars

\* C31: a block the node mined and a transaction POST /api/txs/broadcast
\* accepted are pushed to every peer of the peers table; a block or a
\* transaction a peer pushed, and what a pull stored, are pushed to no peer.
C31_OwnArtifactsArePushed ==
    [][HandlerStep =>
        /\ (gs'.last.handler \in {"mine", "broadcastTx"} /\ gs'.last.err = Nil)
                => gs'.last.pushes = pr.peers
        /\ gs'.last.handler \in {"addBlock", "addTx", "pull", "fetchBlocks", "fetchTxs"}
                => gs'.last.pushes = {}
      ]_vars

\* a broadcast transaction was accepted with two peers in the table
C31_Witness ==
    /\ gs.last.handler = "broadcastTx"
    /\ gs.last.accepted
    /\ gs.last.pushes = XPeerInputs

---------------------------------------------------------------------------
(* Properties of the miner beside the handlers.                           *)

\* searcher i is in its search loop
Searching(i) == Searcher(i).pc \in {"check", "new"}

\* searcher i searches on a block that is no best block of the store
Stale(i) ==
    /\ Searching(i)
    /\ \A tip \in BestBlocks(db) : BestBlock(db, tip).Hash # Searcher(i).block.Hash

\* C32: bestBlockVersion never goes down; while a searcher searches on a
\* block that is no longer a best block, the counter differs from its
\* snapshot or the bump of a commit is still ahead; and such a searcher
\* leaves its search, unless the process has exited.
C32_PreemptedOnEveryChange ==
    /\ [][mn'.bestBlockVersion >= mn.bestBlockVersion]_vars
    /\ [](\A i \in Searchers :
            Stale(i) => (Searcher(i).version # mn.bestBlockVersion \/ PendingBumps > 0))
    /\ \A i \in Searchers : Stale(i) ~> (~Searching(i) \/ mn.exited)

\* a searcher searches on Genesis with the snapshot 0 while a handler has
\* stored a block on Genesis and made its bump
C32_Witness ==
    \E i \in Searchers :
        /\ Stale(i)
        /\ Searcher(i).version = 0
        /\ mn.bestBlockVersion = 1
        /\ PendingBumps = 0
        /\ \A j \in Searchers : ~Searcher(j).inserted



---------------------------------------------------------------------------
(* Properties of the searchers beside the handlers' store calls.           *)

\* the rows of the blocks table that hold the block b
RowsOf(s, b) == {r \in s.blocks : r.hash = HashValue(b.Hash)}

\* parent linkage over a store
ParentLinkage(s) ==
    \A b \in NonGenesis(s) :
        /\ ParentsIn(s, b) # {}
        /\ \A p \in ParentsIn(s, b) : b.Height = p.Height + 1

\* the balance equation over a store
BalanceEquation(s) ==
    \A b \in NonGenesis(s) : \A p \in ParentsIn(s, b) : \A a \in Addresses(s) :
        BalanceAt(s, b.Hash, a) =
            BalanceAt(s, p.Hash, a) - Spent(b, a, 1) + Received(b, a, 1)
            + (IF a = b.RewardOutput.Destination /\ b.RewardOutput.Amount + Fees(b, 1) > 0
                THEN b.RewardOutput.Amount + Fees(b, 1) ELSE 0)

\* the inclusion-set equation over a store
InclusionEquation(s) ==
    \A b \in NonGenesis(s) : \A p \in ParentsIn(s, b) :
        InclusionSet(s, b.Hash) = InclusionSet(s, p.Hash) \cup TxHashes(b)

\* the blocks about to be submitted: the candidates of the searchers that
\* left the search loop, and the blocks a peer can push on a best block
Submissions ==
    {Searcher(i).next[1] : i \in {k \in Searchers : Searcher(k).pc = "add"}}
    \cup FoundBlocks(db)

\* C33: searchers do not coordinate and need not: when two searchers, or a
\* searcher and a peer's push, submit the same block or two blocks on the
\* same parent, both AddBlock calls return nil and leave the same store in
\* either order, each block has one row, and parent linkage, the balance
\* equation and the inclusion-set equation hold of every store the node
\* reaches, the stores after such submissions among them.
C33_UncoordinatedSearchers ==
    /\ ParentLinkage(db) /\ BalanceEquation(db) /\ InclusionEquation(db)
    /\ \A b \in StoredBlocks(db) : Cardinality(RowsOf(db, b)) = 1
    /\ \A i \in Searchers :
        Searcher(i).pc = "add" =>
            \A b \in {x \in Submissions : x.PreviousHash = Searcher(i).next[1].PreviousHash} :
                \A r1 \in {AddBlock(db, Searcher(i).next[1])} :
                    \A r2 \in {AddBlock(r1.db, b)} :
                        /\ r1.err = Nil /\ r2.err = Nil
                        /\ Cardinality(RowsOf(r2.db, b)) = 1
                        /\ Cardinality(RowsOf(r2.db, Searcher(i).next[1])) = 1
                        /\ r2.db = AddBlock(AddBlock(db, b).db, Searcher(i).next[1]).db

\* two searchers are past AddBlock with the same block, which has one row,
\* and a sibling of it is stored as well
C33_Witness ==
    /\ \E i, j \in Searchers :
        /\ i # j
        /\ Searcher(i).pc = "bump" /\ Searcher(j).pc = "bump"
        /\ Searcher(i).next[1].Hash = Searcher(j).next[1].Hash
        /\ Cardinality(RowsOf(db, Searcher(i).next[1])) = 1
        /\ \E b \in NonGenesis(db) :
            /\ b.Hash # Searcher(i).next[1].Hash
            /\ b.PreviousHash = Searcher(i).next[1].PreviousHash

\* C34: with a block reward within 0..MaxBlockReward the block a searcher
\* assembled from BestBlock(), MinerAddress(), PendingTxs(tip.Hash, 10) and
\* a nonce that passes Valid() is accepted by AddBlock whatever the other
\* searchers' PendingTxs calls evicted, AddTx accepted and the peers
\* pushed since the reads; the miner never ends the process.
C34_AssembledBlockAccepted ==
    (mn.blockReward >= 0 /\ mn.blockReward <= MaxBlockReward) =>
        /\ ~mn.exited
        /\ \A i \in Searchers :
            Searcher(i).pc = "add" => AddBlock(db, Searcher(i).next[1]).err = Nil
        \* the same reads under the rewards at the ends of the range
        /\ \A i \in Searchers : \A reward \in {0, MaxBlockReward} : \A n \in Nonces :
            Searcher(i).pc = "new" =>
                \A next \in {NewBlock(Searcher(i).block, n, Searcher(i).addr, reward,
                                       Searcher(i).stxs)} :
                    HashValid(next.Hash) => AddBlock(db, next).err = Nil

\* a searcher is about to submit a block whose transactions another
\* searcher's PendingTxs has evicted since, on a tip that is no longer the
\* best block
C34_Witness ==
    \E i \in Searchers :
        /\ Searcher(i).pc = "add" /\ Len(Searcher(i).next[1].Transactions) > 0
        /\ \A k \in 1..Len(Searcher(i).next[1].Transactions) :
            ~\E r \in db.txs : r.hash = HashValue(Searcher(i).next[1].Transactions[k].Hash)
        /\ \A tip \in BestBlocks(db) :
            BestBlock(db, tip).Hash # Searcher(i).next[1].PreviousHash

---------------------------------------------------------------------------
(* Properties of the supply.                                               *)

\* the sum of balance_at(h, a) over the addresses of A
RECURSIVE SumOver(_, _, _)
SumOver(s, h, A) ==
    IF A = {} THEN 0
    ELSE LET a == CHOOSE x \in A : TRUE
         IN  BalanceAt(s, h, a) + SumOver(s, h, A \ {a})

\* the coins there are at the block h
Supply(s, h) == SumOver(s, h, Addresses(s))

\* C35: coins are conserved.  For every stored block B other than Genesis
\* the sum of all balances at B is the sum of all balances at parent(B)
\* plus B.RewardOutput.Amount: transfers move coins, fees go from the
\* sources to the miner.  So the supply at B is at most
\* MaxBlockReward * Height(B).
C35_CoinsConserved ==
    /\ \A b \in NonGenesis(db) : \A p \in ParentsIn(db, b) :
        Supply(db, b.Hash) = Supply(db, p.Hash) + b.RewardOutput.Amount
    /\ \A b \in StoredBlocks(db) :
        /\ Supply(db, b.Hash) <= MaxBlockReward * b.Height
        /\ Supply(db, b.Hash) =
                SumOver(db, b.Hash, {r.address : r \in {x \in db.balances :
                                        x.block_hash = HashValue(b.Hash)}})

\* a stored block moves coins with a fee and pays a reward on top of a
\* block that holds coins already, and another stored block pays its miner
\* in fees alone
C35_Witness ==
    /\ \E b \in NonGenesis(db) : \E p \in ParentsIn(db, b) :
        /\ Fees(b, 1) > 0 /\ b.RewardOutput.Amount > 0
        /\ Supply(db, p.Hash) > 0
    /\ \E b \in NonGenesis(db) : b.RewardOutput.Amount = 0 /\ Fees(b, 1) > 0

---------------------------------------------------------------------------
(* The per-block state as a function of the block hash.  A block hash is  *)
(* the digest of the parent's hash, the height, the nonce, the reward     *)
(* output and the digest of the transaction list, so that a hash fixes    *)
(* the block and every block below it.                                    *)

ParentHashOf(h) == h.in[1]
RewardDestinationOf(h) == h.in[5]
RewardAmountOf(h) == h.in[6]
\* the marshalled transactions, Destination, Amount, Source and Fee first
TxsOf(h) == h.in[7].in

SumOf(txs, F(_)) ==
    LET sum[i \in 0..Len(txs)] == IF i = 0 THEN 0 ELSE sum[i - 1] + F(txs[i])
    IN  sum[Len(txs)]

FeeOf(j) == j[4]

\* the balance of a at the block with hash h, from the hash alone
RECURSIVE BalanceFromHash(_, _)
BalanceFromHash(h, a) ==
    IF h = GenesisBlock.Hash THEN 0
    ELSE LET spent(j) == IF j[3] = a THEN j[2] + j[4] ELSE 0
             received(j) == IF j[1] = a THEN j[2] ELSE 0
             fee == RewardAmountOf(h) + SumOf(TxsOf(h), FeeOf)
         IN  BalanceFromHash(ParentHashOf(h), a)
             - SumOf(TxsOf(h), spent) + SumOf(TxsOf(h), received)
             + (IF a = RewardDestinationOf(h) /\ fee > 0 THEN fee ELSE 0)

\* the inclusion set of the block with hash h, from the hash alone
RECURSIVE IncludedFromHash(_)
IncludedFromHash(h) ==
    IF h = GenesisBlock.Hash THEN {}
    ELSE IncludedFromHash(ParentHashOf(h))
         \cup {HashValue(TxHash(TxsOf(h)[i])) : i \in 1..Len(TxsOf(h))}

\* C36: the per-block state is a function of the block alone.  Whatever
\* the order in which blocks, transactions and PendingTxs calls arrived,
\* whatever siblings are stored and whatever was evicted, the balance rows
\* of a stored block with hash h are the non-zero balances computed from h,
\* one row for each address, and its inclusion rows are the transactions
\* of the blocks h names.
C36_StateIsFunctionOfHash ==
    /\ \A b \in StoredBlocks(db) :
        /\ \A a \in Addresses(db) : BalanceAt(db, b.Hash, a) = BalanceFromHash(b.Hash, a)
        /\ InclusionSet(db, b.Hash) = IncludedFromHash(b.Hash)
    /\ \A r \in db.balances :
        /\ r.balance # 0
        /\ \E b \in StoredBlocks(db) : r.block_hash = HashValue(b.Hash)
        /\ \A q \in db.balances :
            (q.block_hash = r.block_hash /\ q.address = r.address) => q = r
    /\ \A r \in db.included_txs :
        \E b \in StoredBlocks(db) : r.block_hash = HashValue(b.Hash)

\* two siblings are stored, one with transactions, on a parent that holds
\* coins, and a transaction that no block holds is in the mempool
C36_Witness ==
    /\ \E b, c \in NonGenesis(db) :
        /\ b.Hash # c.Hash /\ b.PreviousHash = c.PreviousHash
        /\ b.PreviousHash # GenesisBlock.Hash
        /\ b.Transactions # <<>>
    /\ \E t \in db.txs : ~\E r \in db.block_txs : r.tx_hash = t.hash

---------------------------------------------------------------------------
(* Properties of the store calls under TransactWithRetry.                  *)

\* caller k has its answer, without error
Answered(k, op) == rt[k].pc = "done" /\ rt[k].op = op /\ rt[k].ret = Nil

\* C37: what a store call returns reflects its committed attempt alone:
\* the list DB.Peers returns is the rows its committed attempt read,
\* DB.AddPeer returns created = true exactly when its committed attempt
\* inserted the row, and of two AddPeer calls for one peer under way
\* together at most one returns created = true.
C37_ReturnsReflectCommittedAttempt ==
    /\ \A k \in Callers :
        /\ Answered(k, "Peers") => PeersReturn(rt[k]) = rt[k].read
        /\ Answered(k, "AddPeer") => AddPeerReturn(rt[k]) = rt[k].inserted
    /\ \A k, l \in Callers :
        (k # l /\ Answered(k, "AddPeer") /\ Answered(l, "AddPeer")
            /\ rt[k].peer = rt[l].peer)
            => ~(AddPeerReturn(rt[k]) /\ AddPeerReturn(rt[l]))

\* C38: a peer is inserted only by a goroutine whose PING succeeded; the
\* goroutine runs the follow-up, the notification of every other peer and
\* the full sync, exactly when its own AddPeer inserted the row, so once
\* for each insertion however many validateAndAddPeer calls race; and the
\* new peer is never among the notified.
C38_FollowUpOncePerInsertion ==
    \A k \in Callers :
        /\ rt[k].pc \in {"begin", "done", "returned"} => rt[k].pinged
        /\ rt[k].pc = "returned" =>
            /\ rt[k].followed <=> (rt[k].ret = Nil /\ rt[k].inserted)
            /\ rt[k].peer \notin rt[k].notified

---------------------------------------------------------------------------
(* Properties of the eviction beside the blocks' references.              *)

\* a stored block refers to the transaction with hash h
Referenced(s, h) ==
    \/ \E r \in s.block_txs : r.tx_hash = h
    \/ \E r \in s.included_txs : r.tx_hash = h

\* C39: the eviction of PendingTxs never removes a transaction that a
\* stored block refers to, through its inclusion index or its membership
\* index: every reference of the store resolves to a row of txs, and a
\* PendingTxs call on any tip, with any limit and row order, keeps every
\* referenced row.
C39_ReferencedTxsKept ==
    /\ \A r \in db.block_txs \cup db.included_txs :
        \E t \in db.txs : t.hash = r.tx_hash
    /\ \A tip \in Hashes(db) : \A limit \in LimitInputs :
        \A rows \in Orders(PendingRows(db, tip)) :
            \A out \in {PendingTxs(db, tip, limit, rows).db} :
                /\ \A t \in db.txs : Referenced(db, t.hash) => t \in out.txs
                /\ out.block_txs = db.block_txs /\ out.included_txs = db.included_txs

\* one PendingTxs call meets two transactions its tip cannot pay: it
\* deletes the one no block refers to and keeps the one a sibling holds
C39_Witness ==
    \E tip \in Hashes(db) : \E limit \in LimitInputs :
        \E rows \in Orders(PendingRows(db, tip)) :
            \E out \in {PendingTxs(db, tip, limit, rows).db} :
                /\ \E t \in db.txs : ~Referenced(db, t.hash) /\ t \notin out.txs
                /\ \E i \in 1..Len(rows) :
                    /\ Referenced(db, rows[i].hash)
                    /\ BalanceAt(db, tip, rows[i].source) < rows[i].amount + rows[i].fee
                    /\ rows[i] \in out.txs

---------------------------------------------------------------------------
===========================================================================
